---- MODULE Spec2Model ----
(***************************************************************************)
(* Model of kitsune/wiki/models.py: Document and Revision persistence, the *)
(* denormalised current_revision / latest_localizable_revision / html      *)
(* fields, rename redirects, staleness queries and the DocumentLink graph. *)
(*                                                                         *)
(* The database is the pair of tables docs and revs (functions from        *)
(* primary key to row), the many-to-many table contributors and the table  *)
(* links.  inst is the Document instance a request holds in memory, with   *)
(* the old_slug / old_title attributes that __setattr__ records.  procs    *)
(* is, per concurrent request, how far its save has come and the instances *)
(* it holds.                                                               *)
(***************************************************************************)
EXTENDS Integers, Sequences, FiniteSets, TLC

VARIABLES docs, revs, contributors, links, nextRevId, inst, last, procs

vars == <<docs, revs, contributors, links, nextRevId, inst, last, procs>>

(***************************************************************************)
(* Bounds of the model.                                                    *)
(***************************************************************************)
MaxDocs == 3
MaxRevs == 3

(***************************************************************************)
(* Values.  A string used as title or slug is a sequence: a word followed  *)
(* by the numbers that redirect templates appended to it.  "Foo" and "foo"  *)
(* differ only in letter case.                                             *)
(***************************************************************************)
None == 0

DEFAULT_LANGUAGE == "en-US"
Locales == {"en-US", "de"}

NoUser == ""

TYPO_SIGNIFICANCE == 10
MEDIUM_SIGNIFICANCE == 20
MAJOR_SIGNIFICANCE == 30

CATEGORIES == {10, 20}

\* str.lower(): only the word carries letter case.
LowerWord(w) == IF w = "Foo" THEN "foo" ELSE w
Lower(name) == [i \in 1..Len(name) |-> IF i = 1 THEN LowerWord(name[i]) ELSE name[i]]

\* template % dict(old=..., number=i), for REDIRECT_TITLE and REDIRECT_SLUG.
FormatTemplate(old, number) == Append(old, number)

\* title.startswith(TEMPLATE_TITLE_PREFIX)
IsTemplateTitle(title) == title[1] = "Template:"

\* Wiki markup: a text and the links [[title]] / [[Include:title]] in it.
Markup(text, linkSeq) == [text |-> text, links |-> linkSeq]
WikiLink(kind, title) == [kind |-> kind, title |-> title]

\* REDIRECT_CONTENT % title
RedirectContent(title) == Markup("REDIRECT", <<WikiLink("link", title)>>)

\* wiki_to_html: the rendering of a markup; '' is the empty html.
EmptyHtml == <<>>
WikiToHtml(content) == <<"html", content>>

(***************************************************************************)
(* Rows and instances.                                                     *)
(***************************************************************************)
OldAttr(attr) == IF attr = "slug" THEN "old_slug" ELSE "old_title"

\* hasattr(self, 'old_' + attr): the attribute is <<>> when absent and
\* <<value>> when present.
HasOld(self, attr) == self[OldAttr(attr)] # <<>>
GetOld(self, attr) == self[OldAttr(attr)][1]

\* Document(...) with the model's field defaults; never saved (id None).
NewDocument(title, slug, locale, parent, is_localizable, category, is_archived) ==
    [id |-> None, title |-> title, slug |-> slug, is_template |-> FALSE,
     is_localizable |-> is_localizable, locale |-> locale,
     current_revision |-> None, latest_localizable_revision |-> None,
     parent |-> parent, html |-> EmptyHtml, category |-> category,
     is_archived |-> is_archived, old_slug |-> <<>>, old_title |-> <<>>]

\* The row a Document instance writes.
DocRow(self) ==
    [title |-> self.title, slug |-> self.slug, is_template |-> self.is_template,
     is_localizable |-> self.is_localizable, locale |-> self.locale,
     current_revision |-> self.current_revision,
     latest_localizable_revision |-> self.latest_localizable_revision,
     parent |-> self.parent, html |-> self.html, category |-> self.category,
     is_archived |-> self.is_archived]

\* The instance a query returns for row id of table D.
DocInstance(D, id) ==
    [id |-> id, title |-> D[id].title, slug |-> D[id].slug,
     is_template |-> D[id].is_template, is_localizable |-> D[id].is_localizable,
     locale |-> D[id].locale, current_revision |-> D[id].current_revision,
     latest_localizable_revision |-> D[id].latest_localizable_revision,
     parent |-> D[id].parent, html |-> D[id].html, category |-> D[id].category,
     is_archived |-> D[id].is_archived, old_slug |-> <<>>, old_title |-> <<>>]

NoInstance == [NewDocument(<<"">>, <<"">>, DEFAULT_LANGUAGE, None, FALSE, None, FALSE)
                 EXCEPT !.id = -1]

\* Revision(...); never saved (id None).
NewRevision(document, content, creator, significance, based_on, is_approved, reviewed, is_ready_for_localization) ==
    [id |-> None, document |-> document, content |-> content,
     creator |-> creator, reviewer |-> NoUser, significance |-> significance,
     based_on |-> based_on, is_approved |-> is_approved, reviewed |-> reviewed,
     is_ready_for_localization |-> is_ready_for_localization]

RevRow(self) ==
    [document |-> self.document, content |-> self.content,
     creator |-> self.creator, reviewer |-> self.reviewer,
     significance |-> self.significance, based_on |-> self.based_on,
     is_approved |-> self.is_approved, reviewed |-> self.reviewed,
     is_ready_for_localization |-> self.is_ready_for_localization]

RevInstance(R, id) ==
    [id |-> id, document |-> R[id].document, content |-> R[id].content,
     creator |-> R[id].creator, reviewer |-> R[id].reviewer,
     significance |-> R[id].significance, based_on |-> R[id].based_on,
     is_approved |-> R[id].is_approved, reviewed |-> R[id].reviewed,
     is_ready_for_localization |-> R[id].is_ready_for_localization]

\* The database: the tables and the revision auto-increment counter.
Database(D, R, C, L, n) ==
    [docs |-> D, revs |-> R, contributors |-> C, links |-> L, nextRevId |-> n]

\* The running state of an operation: the database as written so far, the
\* instance self, and the exception raised ("" while none was).
Running(db, self) == [db |-> db, self |-> self, err |-> ""]
Raise(st, exception) == [st EXCEPT !.err = exception]

\* The largest element of a set of ids, None when it is empty:
\* order_by('-id')[0].
MaxId(S) == IF S = {} THEN None ELSE CHOOSE x \in S : \A y \in S : y <= x

(***************************************************************************)
(* Document: validation.                                                   *)
(***************************************************************************)
\* Document.uncached.filter(locale=self.locale, **{attr: value}).exists()
Collides(D, self, attr, value) ==
    \E d \in DOMAIN D : D[d].locale = self.locale /\ D[d][attr] = value

RaiseIfCollides(st, attr, exception) ==
    IF st.err # "" THEN st
    ELSE IF (st.self.id = None \/ HasOld(st.self, attr))
            /\ Collides(st.db.docs, st.self, attr, st.self[attr])
         THEN Raise(st, exception)
         ELSE st

\* Mutant: no document is found to have translations.
TranslationsOfNone(D, id) == {}

\* self.translations: the rows whose parent is self.
Translations(D, id) == {d \in DOMAIN D : D[d].parent = id}

\* Mutant: the locale does not force is_localizable.
CleanIsLocalizableAnyLocale(st) ==
    IF st.err # "" THEN st
    ELSE IF st.self.parent # None /\ ~st.db.docs[st.self.parent].is_localizable
         THEN Raise(st, "ValidationError")
         ELSE IF st.self.id # None /\ ~st.self.is_localizable
                 /\ Translations(st.db.docs, st.self.id) # {}
              THEN Raise(st, "ValidationError")
              ELSE st

CleanIsLocalizable(st) ==
    IF st.err # "" THEN st
    ELSE LET self == IF st.self.locale # DEFAULT_LANGUAGE
                     THEN [st.self EXCEPT !.is_localizable = FALSE]
                     ELSE st.self
             s1 == [st EXCEPT !.self = self]
         IN  IF self.parent # None /\ ~st.db.docs[self.parent].is_localizable
             THEN Raise(s1, "ValidationError")
             ELSE IF self.id # None /\ ~self.is_localizable
                     /\ Translations(st.db.docs, self.id) # {}
                  THEN Raise(s1, "ValidationError")
                  ELSE s1

EnsureInheritedAttr(st, attr) ==
    IF st.err # "" THEN st
    ELSE IF st.self.parent # None
         THEN [st EXCEPT !.self[attr] = st.db.docs[st.self.parent][attr]]
         ELSE IF st.self.id # None
              THEN [st EXCEPT !.db.docs =
                       [d \in DOMAIN st.db.docs |->
                           IF d \in Translations(st.db.docs, st.self.id)
                           THEN [st.db.docs[d] EXCEPT ![attr] = st.self[attr]]
                           ELSE st.db.docs[d]]]
              ELSE st

CleanCategory(st) ==
    IF st.err # "" THEN st
    ELSE IF st.self.parent = None /\ st.self.category \notin CATEGORIES
         THEN Raise(st, "ValidationError")
         ELSE EnsureInheritedAttr(st, "category")

(***************************************************************************)
(* Document: the row write, under the table's unique_together.             *)
(***************************************************************************)
\* Mutant: the table has no unique_together.
ViolatesUniqueNever(D, id, row) == FALSE

\* Whether writing row under primary key id breaks unique_together.
ViolatesUnique(D, id, row) ==
    \E d \in DOMAIN D \ {id} :
        /\ D[d].locale = row.locale
        /\ \/ D[d].title = row.title
           \/ D[d].slug = row.slug
           \/ (row.parent # None /\ D[d].parent = row.parent)

\* super(Document, self).save(): INSERT when id is None, else UPDATE.
ModelSave(st) ==
    IF st.err # "" THEN st
    ELSE LET D == st.db.docs
             id == IF st.self.id = None THEN Cardinality(DOMAIN D) + 1
                   ELSE st.self.id
             row == DocRow(st.self)
         IN  IF ViolatesUnique(D, id, row)
             THEN Raise(st, "IntegrityError")
             ELSE [st EXCEPT
                     !.self.id = id,
                     !.db.docs = [d \in DOMAIN D \cup {id} |->
                                     IF d = id THEN row ELSE D[d]],
                     !.db.contributors =
                         [d \in DOMAIN D \cup {id} |->
                             IF d \in DOMAIN D THEN st.db.contributors[d] ELSE {}]]

(***************************************************************************)
(* DocumentLink.                                                           *)
(***************************************************************************)
DocumentLink(linked_from, linked_to, kind) ==
    [linked_from |-> linked_from, linked_to |-> linked_to, kind |-> kind]

\* DocumentLink(...).save(): the INSERT fails on unique_together
\* (linked_from, linked_to).
DocumentLinkSave(st, link) ==
    IF \E l \in st.db.links : /\ l.linked_from = link.linked_from
                              /\ l.linked_to = link.linked_to
    THEN Raise(st, "IntegrityError")
    ELSE [st EXCEPT !.db.links = @ \cup {link}]

\* Mutant: the IntegrityError of the INSERT is not caught.
AddLinkToRaising(st, linked_from, linked_to, kind) ==
    DocumentLinkSave(st, DocumentLink(linked_from, linked_to, kind))

AddLinkTo(st, linked_from, linked_to, kind) ==
    LET saved == DocumentLinkSave(st, DocumentLink(linked_from, linked_to, kind))
    IN  IF saved.err = "IntegrityError" THEN st ELSE saved

\* The document a [[title]] link of a document of the given locale names:
\* the one of that title in the locale, else the one in the default locale.
LinkedDocument(D, title, locale) ==
    LET same == {d \in DOMAIN D : D[d].title = title /\ D[d].locale = locale}
        dflt == {d \in DOMAIN D : D[d].title = title
                                  /\ D[d].locale = DEFAULT_LANGUAGE}
    IN  IF same # {} THEN MaxId(same) ELSE MaxId(dflt)

\* WhatLinksHereParser: add_link_to for every link of the markup, in order.
RECURSIVE WhatLinksHere(_, _, _)
WhatLinksHere(st, doc, linkSeq) ==
    IF linkSeq = <<>> \/ st.err # "" THEN st
    ELSE LET target == LinkedDocument(st.db.docs, Head(linkSeq).title, doc.locale)
             added == IF target = None THEN st
                      ELSE AddLinkTo(st, doc.id, target, Head(linkSeq).kind)
         IN  WhatLinksHere(added, doc, Tail(linkSeq))

\* self.links_from().delete()
LinksFrom(L, id) == {l \in L : l.linked_from = id}

ParseAndCalculateLinks(st) ==
    IF st.err # "" THEN st
    ELSE IF st.self.current_revision = None THEN st
         ELSE LET cleared == [st EXCEPT !.db.links = @ \ LinksFrom(@, st.self.id)]
              IN  WhatLinksHere(cleared, st.self,
                        st.db.revs[st.self.current_revision].content.links)

(***************************************************************************)
(* Document: the slug or title of a redirect.                              *)
(***************************************************************************)
RECURSIVE UniqueAttrFrom(_, _, _, _)
UniqueAttrFrom(D, self, attr, i) ==
    LET new_value == FormatTemplate(self[attr], i)
    IN  IF ~Collides(D, self, attr, new_value) THEN new_value
        ELSE UniqueAttrFrom(D, self, attr, i + 1)

\* Mutant: the search starts at 2.
UniqueAttrFromTwo(D, self, attr) == UniqueAttrFrom(D, self, attr, 2)

\* unique_attr(): i = 1, then the loop.
UniqueAttr(D, self, attr) == UniqueAttrFrom(D, self, attr, 1)

\* Mutant: the tracked old value is not reused.
AttrForRedirectSynthesized(D, self, attr) == UniqueAttr(D, self, attr)

AttrForRedirect(D, self, attr) ==
    IF HasOld(self, attr) THEN GetOld(self, attr) ELSE UniqueAttr(D, self, attr)

(***************************************************************************)
(* Revision: helpers of save and delete.                                   *)
(***************************************************************************)
\* The running state of a Revision operation also carries self.document.
RunningRevision(db, self, document) ==
    [db |-> db, self |-> self, document |-> document, err |-> ""]

\* Document.original
Original(doc) == IF doc.parent # None THEN doc.parent ELSE doc.id

\* Second component of _based_on_is_clean().
BasedOnIsClean(R, self, document) ==
    ~(self.based_on # None /\ R[self.based_on].document # Original(document))

\* self.document.revisions
RevisionsOf(R, id) == {r \in DOMAIN R : R[r].document = id}

\* Mutant: approval alone displaces the current revision.
BecomesCurrentWhenApproved(self, document) == self.is_approved

\* The condition under which save() re-caches the document.
BecomesCurrent(self, document) ==
    self.is_approved /\ (document.current_revision = None
                         \/ document.current_revision < self.id)

\* The condition of the elif branch of save().
BecomesLocalizable(self, document) ==
    self.is_ready_for_localization
    /\ (document.latest_localizable_revision = None
        \/ self.id > document.latest_localizable_revision)

\* Mutant: the creators of rejected revisions too.
NewContributorsOfAll(R, document) ==
    LET new_revs == {r \in RevisionsOf(R, document.id) :
                        document.current_revision # None
                          => r > document.current_revision}
    IN  {R[r].creator : r \in new_revs}

\* Creators of the revisions not explicitly rejected and newer than the
\* current revision.
NewContributors(R, document) ==
    LET new_revs == {r \in RevisionsOf(R, document.id) :
                        /\ ~(R[r].reviewed /\ ~R[r].is_approved)
                        /\ (document.current_revision # None
                              => r > document.current_revision)}
    IN  {R[r].creator : r \in new_revs}

\* Mutant: the newest remaining revision, approved or not.
LatestRevisionOfAny(R, document, excluded, ready) ==
    MaxId({r \in RevisionsOf(R, document) \ {excluded} :
              ready => R[r].is_ready_for_localization})

\* latest_revision(excluded_rev, constraint) of delete(); approved_only or
\* approved and ready for localization.
LatestRevision(R, document, excluded, ready) ==
    MaxId({r \in RevisionsOf(R, document) \ {excluded} :
              R[r].is_approved /\ (ready => R[r].is_ready_for_localization)})

\* super(Revision, self).save(): INSERT when id is None, else UPDATE.
RevisionModelSave(st) ==
    LET R == st.db.revs
        id == IF st.self.id = None THEN st.db.nextRevId ELSE st.self.id
    IN  [st EXCEPT
           !.self.id = id,
           !.db.revs = [r \in DOMAIN R \cup {id} |->
                           IF r = id THEN RevRow(st.self) ELSE R[r]],
           !.db.nextRevId = IF st.self.id = None THEN @ + 1 ELSE @]

(***************************************************************************)
(* Document.save and Revision.save.                                        *)
(***************************************************************************)
RECURSIVE DocumentSave(_)
RECURSIVE RevisionSave(_)

\* Mutant: the old_ attributes are kept.
ForgetOldNever(self) == self

\* del self.old_slug and del self.old_title after the redirect was made.
ForgetOld(self) == [self EXCEPT !.old_slug = <<>>, !.old_title = <<>>]

\* Mutant: a redirect only when both the slug and the title changed.
NeedsRedirectForBoth(self) ==
    self.current_revision # None /\ (HasOld(self, "slug") /\ HasOld(self, "title"))

\* if self.current_revision and (slug_changed or title_changed)
NeedsRedirect(self) ==
    self.current_revision # None /\ (HasOld(self, "slug") \/ HasOld(self, "title"))

\* The redirect of a renamed document: Document.objects.create and
\* Revision.objects.create, then the old_ attributes are deleted.
MakeRedirect(st) ==
    IF st.err # "" THEN st
    ELSE LET self == st.self
             creator == st.db.revs[self.current_revision].creator
             doc == DocumentSave(Running(st.db,
                        NewDocument(AttrForRedirect(st.db.docs, self, "title"),
                                    AttrForRedirect(st.db.docs, self, "slug"),
                                    self.locale, None, FALSE, self.category, FALSE)))
             rev == RevisionSave(RunningRevision(doc.db,
                        [NewRevision(doc.self.id, RedirectContent(self.title),
                                     creator, None, None, TRUE, FALSE, FALSE)
                           EXCEPT !.reviewer = creator],
                        doc.self))
         IN  IF NeedsRedirect(self)
             THEN IF doc.err # ""
                  THEN [st EXCEPT !.db = doc.db, !.err = doc.err]
                  ELSE IF rev.err # ""
                       THEN [st EXCEPT !.db = rev.db, !.err = rev.err]
                       ELSE [st EXCEPT !.db = rev.db, !.self = ForgetOld(st.self)]
             ELSE st

\* save() up to the row write: the collision checks and the validation.
DocumentValidate(st) ==
    LET templated == [st EXCEPT !.self.is_template = IsTemplateTitle(st.self.title)]
        slug_checked == RaiseIfCollides(templated, "slug", "SlugCollision")
        title_checked == RaiseIfCollides(slug_checked, "title", "TitleCollision")
        localizable == CleanIsLocalizable(title_checked)
        archived == EnsureInheritedAttr(localizable, "is_archived")
    IN  CleanCategory(archived)

\* save() after the row write: the redirect and the links.
DocumentFinish(st) == ParseAndCalculateLinks(MakeRedirect(st))

DocumentSave(st) == DocumentFinish(ModelSave(DocumentValidate(st)))

\* Mutant: the cached html is not refreshed.
RecacheWithoutHtml(self, document) ==
    [document EXCEPT
       !.latest_localizable_revision =
           IF self.is_ready_for_localization THEN self.id ELSE @,
       !.current_revision = self.id]

\* The document fields save() sets when the revision becomes current.
Recache(self, document) ==
    [document EXCEPT
       !.latest_localizable_revision =
           IF self.is_ready_for_localization THEN self.id ELSE @,
       !.html = WikiToHtml(self.content),
       !.current_revision = self.id]

\* self.document.save() at the end of either branch of Revision.save.
SaveDocumentOf(st, document) ==
    LET saved == DocumentSave(Running(st.db, document))
    IN  [st EXCEPT !.db = saved.db, !.document = saved.self, !.err = saved.err]

\* save() after the row write: the denormalized fields of the document.
RevisionFinish(saved) ==
    LET self == saved.self
        document == saved.document
        R == saved.db.revs
    IN  IF BecomesCurrent(self, document)
        THEN SaveDocumentOf(
               [saved EXCEPT !.db.contributors[document.id] =
                                 @ \cup NewContributors(R, document)],
               Recache(self, document))
        ELSE IF BecomesLocalizable(self, document)
             THEN SaveDocumentOf(saved,
                    [document EXCEPT !.latest_localizable_revision = self.id])
             ELSE saved

\* save() up to and with the row write.
RevisionWrite(st) ==
    IF ~BasedOnIsClean(st.db.revs, st.self, st.document)
    THEN Raise(st, "ProgrammingError")
    ELSE RevisionModelSave(st)

RevisionSave(st) ==
    LET saved == RevisionWrite(st)
    IN  IF saved.err # "" THEN saved ELSE RevisionFinish(saved)

(***************************************************************************)
(* Revision.delete.                                                        *)
(***************************************************************************)
\* Mutant: the revisions based on the deleted one are left as they are.
ClearBasedOnOfNone(R, id) == R

\* Revision.objects.filter(based_on=self).update(based_on=None)
ClearBasedOn(R, id) ==
    [r \in DOMAIN R |-> IF R[r].based_on = id THEN [R[r] EXCEPT !.based_on = None]
                        ELSE R[r]]

\* document.update(**kw): sets the fields on the instance and in its row.
RepointCurrent(st) ==
    IF st.document.current_revision = st.self.id
    THEN LET new_current == LatestRevision(st.db.revs, st.document.id, st.self.id, FALSE)
             html == IF new_current # None
                     THEN WikiToHtml(st.db.revs[new_current].content)
                     ELSE EmptyHtml
         IN  [st EXCEPT !.document.current_revision = new_current,
                        !.document.html = html,
                        !.db.docs[st.document.id].current_revision = new_current,
                        !.db.docs[st.document.id].html = html]
    ELSE st

RepointLocalizable(st) ==
    IF st.document.latest_localizable_revision = st.self.id
    THEN LET new_latest == LatestRevision(st.db.revs, st.document.id, st.self.id, TRUE)
         IN  [st EXCEPT
                !.document.latest_localizable_revision = new_latest,
                !.db.docs[st.document.id].latest_localizable_revision = new_latest]
    ELSE st

\* Mutant: the deletion cascades to the revisions based on the deleted one.
RevisionDeleteCascading(st) ==
    LET repointed == RepointLocalizable(RepointCurrent(st))
        R == repointed.db.revs
    IN  [repointed EXCEPT !.db.revs =
            [r \in {v \in DOMAIN R : v # st.self.id /\ R[v].based_on # st.self.id}
                |-> R[r]]]

RevisionDelete(st) ==
    LET cleared == [st EXCEPT !.db.revs = ClearBasedOn(@, st.self.id)]
        repointed == RepointLocalizable(RepointCurrent(cleared))
        R == repointed.db.revs
    IN  [repointed EXCEPT !.db.revs = [r \in DOMAIN R \ {st.self.id} |-> R[r]]]

(***************************************************************************)
(* Queries.                                                                *)
(***************************************************************************)
\* A revision reviewed and not approved: Q(is_approved=False,
\* reviewed__isnull=False).
Rejected(R, r) == ~R[r].is_approved /\ R[r].reviewed

\* Mutant: is_localizable is not considered.
LocalizableOrLatestRevisionOfAny(db, self, include_rejected) ==
    LET R == db.revs
        mine == RevisionsOf(R, self.id)
        approved == MaxId({r \in mine : R[r].is_approved})
        unrejected == MaxId({r \in mine : ~Rejected(R, r)})
    IN  IF self.latest_localizable_revision # None
        THEN self.latest_localizable_revision
        ELSE IF approved # None THEN approved
        ELSE IF unrejected # None THEN unrejected
        ELSE IF include_rejected THEN MaxId(mine) ELSE None

\* Document.localizable_or_latest_revision(include_rejected)
LocalizableOrLatestRevision(db, self, include_rejected) ==
    LET R == db.revs
        mine == RevisionsOf(R, self.id)
        approved == MaxId({r \in mine : R[r].is_approved})
        unrejected == MaxId({r \in mine : ~Rejected(R, r)})
    IN  IF self.latest_localizable_revision = None \/ ~self.is_localizable
        THEN IF approved # None THEN approved
             ELSE IF unrejected # None THEN unrejected
             ELSE IF include_rejected THEN MaxId(mine) ELSE None
        ELSE self.latest_localizable_revision

\* Mutant: the revision the translation is based on is not considered.
IsOutdatedSinceEver(db, self, level) ==
    IF ~(self.parent # None /\ self.current_revision # None) THEN FALSE
    ELSE \E r \in RevisionsOf(db.revs, self.parent) :
            /\ db.revs[r].is_approved
            /\ db.revs[r].is_ready_for_localization
            /\ db.revs[r].significance >= level

\* Document.is_outdated(level)
IsOutdated(db, self, level) ==
    IF ~(self.parent # None /\ self.current_revision # None) THEN FALSE
    ELSE LET based_on_id == db.revs[self.current_revision].based_on
         IN  \E r \in RevisionsOf(db.revs, self.parent) :
                /\ db.revs[r].is_approved
                /\ db.revs[r].is_ready_for_localization
                /\ db.revs[r].significance >= level
                /\ (based_on_id # None => r > based_on_id)

IsMajorlyOutdated(db, self) == IsOutdated(db, self, MAJOR_SIGNIFICANCE)

(***************************************************************************)
(* Document.translated_to, Document.from_url, _doc_components_from_url     *)
(***************************************************************************)
\* The result of a lookup: a document id (None when there is none) and the
\* exception raised, "" when it returned.
Found(doc, err) == [doc |-> doc, err |-> err]

\* Mutant: no translation is ever found.
TranslatedToNone(db, self, locale) == Found(None, "")

\* translated_to(locale): objects.get(locale=locale, parent=self), None on
\* DoesNotExist; only a default-locale document may be asked.
TranslatedTo(db, self, locale) ==
    IF self.locale # DEFAULT_LANGUAGE
    THEN Found(None, "NotImplementedError")
    ELSE LET matches == {d \in DOMAIN db.docs :
                            /\ db.docs[d].locale = locale
                            /\ db.docs[d].parent = self.id}
         IN  IF matches = {} THEN Found(None, "")
             ELSE IF Cardinality(matches) > 1
                  THEN Found(None, "MultipleObjectsReturned")
                  ELSE Found(MaxId(matches), "")

\* A URL, as urlparse, split_path and resolve take it apart: whether it has
\* a host, the locale of its path, the view its path resolves to ("404"
\* when to none) and the document_slug of the view's arguments.
NoLocale == ""
UrlSlugs == {<<"foo">>, <<"bar">>, <<"baz">>}
UrlViews == {"document", "other", "404"}
Urls == [netloc : BOOLEAN, locale : Locales, view : UrlViews, slug : UrlSlugs]

\* _doc_components_from_url: status "ok" with the locale and slug, "False"
\* when the URL is not of this site, of another locale or of no view, and
\* "NotDocumentView" (raised) when it is of another view.
DocComponentsFromUrl(url, required_locale, check_host) ==
    IF check_host /\ url.netloc THEN [status |-> "False"]
    ELSE IF required_locale # NoLocale /\ url.locale # required_locale
    THEN [status |-> "False"]
    ELSE IF url.view = "404" THEN [status |-> "False"]
    ELSE IF url.view # "document" THEN [status |-> "NotDocumentView"]
    ELSE [status |-> "ok", locale |-> url.locale, slug |-> url.slug]

\* objects.get(locale=locale, slug=slug): the row, None on DoesNotExist.
GetByLocaleSlug(db, locale, slug) ==
    LET matches == {d \in DOMAIN db.docs :
                       db.docs[d].locale = locale /\ db.docs[d].slug = slug}
    IN  IF matches = {} THEN Found(None, "")
        ELSE IF Cardinality(matches) > 1
             THEN Found(None, "MultipleObjectsReturned")
             ELSE Found(MaxId(matches), "")

\* from_url(url, required_locale, check_host): the document of the URL's
\* locale and slug, else the translation into that locale of the
\* default-locale document of that slug, else that document, else None.
FromUrl(db, url, required_locale, check_host) ==
    LET components == DocComponentsFromUrl(url, required_locale, check_host)
    IN  IF components.status # "ok" THEN Found(None, "")
        ELSE
        LET doc == GetByLocaleSlug(db, components.locale, components.slug)
        IN  IF doc.err # "" \/ doc.doc # None THEN doc
            ELSE
            LET fallback == GetByLocaleSlug(db, DEFAULT_LANGUAGE, components.slug)
            IN  IF fallback.err # "" \/ fallback.doc = None THEN fallback
                ELSE
                LET translation == TranslatedTo(db, DocInstance(db.docs, fallback.doc),
                                                components.locale)
                IN  IF translation.err # "" \/ translation.doc # None
                    THEN translation
                    ELSE fallback

(***************************************************************************)
(* Document.__setattr__                                                    *)
(***************************************************************************)
\* Mutant: the comparison with the present value is case sensitive.
DocumentSetAttrCaseSensitive(self, name, value) ==
    LET tracked ==
          IF self.id # None /\ name \in {"slug", "title"}
          THEN IF ~HasOld(self, name)
               THEN IF self[name] # value
                    THEN [self EXCEPT ![OldAttr(name)] = <<self[name]>>]
                    ELSE self
               ELSE IF value = GetOld(self, name)
                    THEN [self EXCEPT ![OldAttr(name)] = <<>>]
                    ELSE self
          ELSE self
    IN  [tracked EXCEPT ![name] = value]

DocumentSetAttr(self, name, value) ==
    LET tracked ==
          IF self.id # None /\ name \in {"slug", "title"}
          THEN IF ~HasOld(self, name)
               THEN IF Lower(self[name]) # Lower(value)
                    THEN [self EXCEPT ![OldAttr(name)] = <<self[name]>>]
                    ELSE self
               ELSE IF value = GetOld(self, name)
                    THEN [self EXCEPT ![OldAttr(name)] = <<>>]
                    ELSE self
          ELSE self
    IN  [tracked EXCEPT ![name] = value]

(***************************************************************************)
(* The state machine.                                                      *)
(***************************************************************************)
DB == Database(docs, revs, contributors, links, nextRevId)

Commit(db) ==
    /\ docs' = db.docs
    /\ revs' = db.revs
    /\ contributors' = db.contributors
    /\ links' = db.links
    /\ nextRevId' = db.nextRevId

WithinBounds(db) ==
    /\ Cardinality(DOMAIN db.docs) <= MaxDocs
    /\ db.nextRevId <= MaxRevs + 1

\* What the last operation was and how it ended: the exception it raised (""
\* when it returned), the document and revision it was called on, the
\* redirect document it made, for a deletion the document's
\* current_revision and latest_localizable_revision before it, and for a
\* link calculation whether the
\* operation before it was one of the same document.
Outcome(op, err, doc, rev, redirect) ==
    [op |-> op, err |-> err, doc |-> doc, rev |-> rev, redirect |-> redirect,
     before |-> IF op = "DeleteRevision" /\ doc \in DOMAIN docs
                THEN docs[doc].current_revision ELSE None,
     latest |-> IF op = "DeleteRevision" /\ doc \in DOMAIN docs
                THEN docs[doc].latest_localizable_revision ELSE None,
     repeat |-> op = "CalculateLinks" /\ last.op = op /\ last.doc = doc]

\* The document a successful save created beside the one saved.
RedirectMade(before, after, saved) ==
    MaxId(DOMAIN after.docs \ (DOMAIN before.docs \cup {saved}))

\* self.document of a revision of document d: the instance the request
\* holds when it is that document, else the one the query loads.
DocumentOf(d) == IF inst.id = d THEN inst ELSE DocInstance(docs, d)

\* The instance held after an operation: an exception ends the request and
\* with it the instance it held.
AfterRequest(err, held) == IF err = "" THEN held ELSE NoInstance

\* The concurrent requests, and one that runs no save.
Procs == {"p1", "p2"}
NoRevision ==
    [NewRevision(None, Markup("", <<>>), NoUser, None, None, FALSE, FALSE, FALSE)
       EXCEPT !.id = -1]
Idle == [pc |-> "idle", self |-> NoInstance, rev |-> NoRevision]

Init ==
    /\ procs = [p \in Procs |-> Idle]
    /\ docs = [d \in {} |-> None]
    /\ revs = [r \in {} |-> None]
    /\ contributors = [d \in {} |-> {}]
    /\ links = {}
    /\ nextRevId = 1
    /\ inst = NoInstance
    /\ last = [op |-> "Init", err |-> "", doc |-> None, rev |-> None,
               redirect |-> None, before |-> None, latest |-> None,
               repeat |-> FALSE]

\* The common end of the actions that save a document; saved is its id, None
\* for a new document.
FinishDocument(op, done, saved) ==
    /\ WithinBounds(done.db)
    /\ Commit(done.db)
    /\ inst' = AfterRequest(done.err, done.self)
    /\ UNCHANGED procs
    /\ last' = Outcome(op, done.err,
                       IF saved = None /\ done.err = "" THEN done.self.id ELSE saved,
                       None,
                       IF saved = None THEN None
                       ELSE RedirectMade(DB, done.db, saved))

\* Document(...).save() of a new document.
CreateDocument(title, slug, locale, parent, is_localizable, category, is_archived) ==
    /\ parent \in DOMAIN docs \cup {None}
    /\ FinishDocument("CreateDocument",
          DocumentSave(Running(DB,
              NewDocument(title, slug, locale, parent, is_localizable,
                          category, is_archived))),
          None)

\* Document(...): a new instance, held and not yet saved.
Instantiate(title, slug, locale, parent) ==
    /\ parent \in DOMAIN docs \cup {None}
    /\ inst' = NewDocument(title, slug, locale, parent, TRUE, 10, FALSE)
    /\ last' = Outcome("Instantiate", "", None, None, None)
    /\ UNCHANGED <<docs, revs, contributors, links, nextRevId, procs>>

\* doc.save() of the new instance held.
SaveNew ==
    /\ inst.id = None
    /\ FinishDocument("SaveNew", DocumentSave(Running(DB, inst)), None)

\* Document.objects.get(pk=d)
LoadDocument(d) ==
    /\ d \in DOMAIN docs
    /\ inst' = DocInstance(docs, d)
    /\ last' = Outcome("LoadDocument", "", d, None, None)
    /\ UNCHANGED <<docs, revs, contributors, links, nextRevId, procs>>

\* doc.slug = value or doc.title = value on the loaded instance.
SetAttr(name, value) ==
    /\ inst.id > None
    /\ inst' = DocumentSetAttr(inst, name, value)
    /\ last' = Outcome("SetAttr", "", inst.id, None, None)
    /\ UNCHANGED <<docs, revs, contributors, links, nextRevId, procs>>

\* Assignment to a field __setattr__ does not track.
SetField(field, value) ==
    /\ inst.id > None
    /\ inst' = [inst EXCEPT ![field] = value]
    /\ last' = Outcome("SetField", "", inst.id, None, None)
    /\ UNCHANGED <<docs, revs, contributors, links, nextRevId, procs>>

\* doc.save() of the loaded instance.
SaveDocument ==
    /\ inst.id > None
    /\ FinishDocument("SaveDocument", DocumentSave(Running(DB, inst)), inst.id)

\* A request that loads document d, assigns one field and saves.
UpdateDocument(d, field, value) ==
    /\ d \in DOMAIN docs
    /\ FinishDocument("UpdateDocument",
          DocumentSave(Running(DB, [DocInstance(docs, d) EXCEPT ![field] = value])),
          d)

\* The common end of the revision actions.
FinishRevision(op, done) ==
    /\ WithinBounds(done.db)
    /\ Commit(done.db)
    /\ inst' = AfterRequest(done.err, IF inst.id = done.document.id
                                      THEN done.document ELSE inst)
    /\ UNCHANGED procs
    /\ last' = Outcome(op, done.err, done.document.id, done.self.id,
                       RedirectMade(DB, done.db, done.document.id))

\* Revision(...).save() of a new revision of document d.
CreateRevision(d, content, creator, significance, based_on, is_approved, reviewed, is_ready_for_localization) ==
    /\ d \in DOMAIN docs
    /\ based_on \in DOMAIN revs \cup {None}
    /\ FinishRevision("CreateRevision",
          RevisionSave(RunningRevision(DB,
              NewRevision(d, content, creator, significance, based_on,
                          is_approved, reviewed, is_ready_for_localization),
              DocumentOf(d))))

\* A loaded revision is reviewed or readied, then saved.
UpdateRevision(r, is_approved, reviewed, is_ready_for_localization) ==
    /\ r \in DOMAIN revs
    /\ FinishRevision("UpdateRevision",
          RevisionSave(RunningRevision(DB,
              [RevInstance(revs, r) EXCEPT
                 !.is_approved = is_approved,
                 !.reviewed = reviewed,
                 !.is_ready_for_localization = is_ready_for_localization],
              DocumentOf(revs[r].document))))

\* Revision.can_be_readied_for_localization()
CanBeReadiedForLocalization(self, document) ==
    /\ self.is_approved
    /\ self.significance > TYPO_SIGNIFICANCE
    /\ document.locale = DEFAULT_LANGUAGE

\* Revision.delete() of a loaded revision.
DeleteRevision(r) ==
    /\ r \in DOMAIN revs
    /\ FinishRevision("DeleteRevision",
          RevisionDelete(RunningRevision(DB, RevInstance(revs, r),
                                         DocumentOf(revs[r].document))))

\* The end of a link calculation.
FinishLinks(done, d) ==
    /\ Commit(done.db)
    /\ last' = Outcome("CalculateLinks", done.err, d, None, None)
    /\ UNCHANGED <<inst, procs>>

\* doc.parse_and_calculate_links() of a loaded document.
CalculateLinks(d) ==
    /\ d \in DOMAIN docs
    /\ FinishLinks(ParseAndCalculateLinks(Running(DB, DocInstance(docs, d))), d)

(***************************************************************************)
(* Concurrent requests.  A request p runs Document.save in three steps,    *)
(* between which the other request may run: the checks, the row write, and *)
(* the redirect with the links.  No step holds a lock and save() opens no  *)
(* transaction.                                                            *)
(***************************************************************************)
\* The end of a step of request p: pc is where p goes on when the step
\* raised nothing; an exception ends the request.
FinishStep(p, op, done, pc, redirect) ==
    /\ WithinBounds(done.db)
    /\ Commit(done.db)
    /\ procs' = [procs EXCEPT ![p] =
                    IF done.err = "" /\ pc # "idle"
                    THEN [pc |-> pc, self |-> done.self, rev |-> NoRevision]
                    ELSE Idle]
    /\ last' = Outcome(op, done.err, done.self.id, None, redirect)
    /\ UNCHANGED inst

\* save() of the instance self by request p, up to the row write.
BeginSave(p, self) ==
    /\ procs[p].pc = "idle"
    /\ FinishStep(p, "BeginSave", DocumentValidate(Running(DB, self)),
                  "validated", None)

\* Document(...).save() by request p.
BeginCreate(p, title, slug, locale, parent) ==
    /\ parent \in DOMAIN docs \cup {None}
    /\ BeginSave(p, NewDocument(title, slug, locale, parent, TRUE, 10, FALSE))

\* Request p loads document d, assigns its slug or title and saves.
BeginRename(p, d, name, value) ==
    /\ d \in DOMAIN docs
    /\ BeginSave(p, DocumentSetAttr(DocInstance(docs, d), name, value))

\* super(Document, self).save() of request p.
WriteRow(p) ==
    /\ procs[p].pc = "validated"
    /\ FinishStep(p, "WriteRow", ModelSave(Running(DB, procs[p].self)),
                  "written", None)

\* The rest of save() of request p.
FinishSave(p) ==
    /\ procs[p].pc = "written"
    /\ FinishStep(p, "FinishSave", DocumentFinish(Running(DB, procs[p].self)),
                  "idle",
                  RedirectMade(DB, DocumentFinish(Running(DB, procs[p].self)).db,
                               procs[p].self.id))

\* The end of a step of the revision save of request p, which holds the
\* revision and its own copy of the revision's document.
FinishRevisionStep(p, op, done, pc) ==
    /\ WithinBounds(done.db)
    /\ Commit(done.db)
    /\ procs' = [procs EXCEPT ![p] =
                    IF done.err = "" /\ pc # "idle"
                    THEN [pc |-> pc, self |-> done.document, rev |-> done.self]
                    ELSE Idle]
    /\ last' = Outcome(op, done.err, done.document.id, done.self.id, None)
    /\ UNCHANGED inst

\* Request p loads its copy of document d: Document.objects.get(pk=d).
LoadCopy(p, d) ==
    /\ procs[p].pc = "idle"
    /\ d \in DOMAIN docs
    /\ procs' = [procs EXCEPT ![p] = [pc |-> "loaded", self |-> DocInstance(docs, d),
                                      rev |-> NoRevision]]
    /\ last' = Outcome("LoadCopy", "", d, None, None)
    /\ UNCHANGED <<docs, revs, contributors, links, nextRevId, inst>>

\* Revision(document=copy, ...).save() of request p up to and with the row
\* write.
WriteRevision(p, content, is_approved) ==
    /\ procs[p].pc = "loaded"
    /\ FinishRevisionStep(p, "WriteRevision",
          RevisionWrite(RunningRevision(DB,
              NewRevision(procs[p].self.id, content, "u1", MAJOR_SIGNIFICANCE,
                          None, is_approved, is_approved, FALSE),
              procs[p].self)),
          "inserted")

\* The rest of Revision.save of request p.
FinishRevisionSave(p) ==
    /\ procs[p].pc = "inserted"
    /\ FinishRevisionStep(p, "FinishRevisionSave",
          RevisionFinish(RunningRevision(DB, procs[p].rev, procs[p].self)),
          "idle")

\* Mutant: clean() corrects based_on and raises nothing.
RevisionCleanSilently(st) ==
    IF st.self.document # None /\ ~BasedOnIsClean(st.db.revs, st.self, st.document)
    THEN [st EXCEPT !.self.based_on =
             LocalizableOrLatestRevision(st.db,
                 DocInstance(st.db.docs, Original(st.document)), FALSE)]
    ELSE st

\* Revision.clean() of the revision st.self, whose document_id is None when
\* no document is behind it yet: self.document then raises DoesNotExist.
RevisionClean(st) ==
    LET self == st.self
        original == DocInstance(st.db.docs, Original(st.document))
        based == IF self.document = None
                 THEN [st EXCEPT !.self.based_on = None]
                 ELSE IF ~BasedOnIsClean(st.db.revs, self, st.document)
                      THEN Raise([st EXCEPT !.self.based_on =
                                     LocalizableOrLatestRevision(st.db, original, FALSE)],
                                 "ValidationError")
                      ELSE st
    IN  IF based.err # "" THEN based
        ELSE IF ~(self.is_approved /\ self.significance > TYPO_SIGNIFICANCE)
             THEN [based EXCEPT !.self.is_ready_for_localization = FALSE]
             ELSE IF self.document = None
                  THEN Raise(based, "DoesNotExist")
                  ELSE IF ~CanBeReadiedForLocalization(self, st.document)
                       THEN [based EXCEPT !.self.is_ready_for_localization = FALSE]
                       ELSE based

\* Request p makes a revision of document d, or one with no document behind
\* it yet: Revision(document=d, content=content, based_on=based_on, ...).
BuildRevision(p, d, content, based_on, is_approved, is_ready_for_localization) ==
    /\ procs[p].pc = "idle"
    /\ d \in DOMAIN docs \cup {None}
    /\ based_on \in DOMAIN revs \cup {None}
    /\ procs' = [procs EXCEPT ![p] =
                    [pc |-> "built",
                     self |-> IF d = None THEN NoInstance ELSE DocInstance(docs, d),
                     rev |-> NewRevision(d, content, "u1", MAJOR_SIGNIFICANCE,
                                         based_on, is_approved, is_approved,
                                         is_ready_for_localization)]]
    /\ last' = Outcome("BuildRevision", "", d, None, None)
    /\ UNCHANGED <<docs, revs, contributors, links, nextRevId, inst>>

\* rev.clean() by request p, which keeps the revision when clean() raises.
CleanRevision(p) ==
    /\ procs[p].pc = "built"
    /\ LET done == RevisionClean(RunningRevision(DB, procs[p].rev, procs[p].self))
       IN  /\ procs' = [procs EXCEPT ![p] =
                           [pc |-> IF done.err = "" THEN "cleaned" ELSE "invalid",
                            self |-> procs[p].self,
                            rev |-> done.self]]
           /\ last' = Outcome("CleanRevision", done.err, procs[p].rev.document,
                              None, None)
    /\ UNCHANGED <<docs, revs, contributors, links, nextRevId, inst>>

\* rev.save() by request p of the revision it made, cleaned or not.
SaveBuilt(p) ==
    /\ procs[p].pc \in {"built", "cleaned", "invalid"}
    /\ FinishRevisionStep(p, "SaveBuilt",
          IF procs[p].rev.document = None
          THEN Raise(RunningRevision(DB, procs[p].rev, procs[p].self), "DoesNotExist")
          ELSE RevisionSave(RunningRevision(DB, procs[p].rev, procs[p].self)),
          "idle")

(***************************************************************************)
(* Inputs of the operations.                                               *)
(***************************************************************************)
PlainContent == Markup("a", <<>>)
OtherContent == Markup("b", <<>>)
LinkContent ==
    Markup("c", <<WikiLink("link", <<"bar">>), WikiLink("include", <<"bar">>),
                  WikiLink("link", <<"Foo">>)>>)

(***************************************************************************)
(* Revision history: the revisions of a document are saved, approved,      *)
(* readied and deleted; the loaded document may have lost its category, so *)
(* that the document save inside Revision.save raises.                     *)
(***************************************************************************)
NextRevision ==
    \/ CreateDocument(<<"Foo">>, <<"foo">>, DEFAULT_LANGUAGE, None, TRUE, 10, FALSE)
    \/ \E d \in DOMAIN docs : LoadDocument(d)
    \/ SetField("category", None)
    \/ \E d \in DOMAIN docs, content \in {PlainContent, OtherContent},
          approved \in BOOLEAN, ready \in BOOLEAN :
          CreateRevision(d, content, "u1", MAJOR_SIGNIFICANCE, None,
                         approved, approved, ready)
    \/ \E r \in DOMAIN revs, approved \in BOOLEAN, ready \in BOOLEAN :
          UpdateRevision(r, approved, approved, ready)
    \/ \E r \in DOMAIN revs : DeleteRevision(r)

SpecRevision == Init /\ [][NextRevision]_vars

RevisionSaves == {"CreateRevision", "UpdateRevision"}

\* C1: saving an approved revision of a document whose current_revision has
\* a larger id leaves the document's current_revision and html unchanged,
\* and no revision save ever lowers the id of a document's current_revision.
C1_Step ==
    last'.op \in RevisionSaves =>
        \A d \in DOMAIN docs :
            /\ docs'[d].current_revision >= docs[d].current_revision
            /\ (/\ d = last'.doc
                /\ last'.rev \in DOMAIN revs'
                /\ revs'[last'.rev].is_approved
                /\ docs[d].current_revision > last'.rev)
               => /\ docs'[d].current_revision = docs[d].current_revision
                  /\ docs'[d].html = docs[d].html

C1_CurrentRevisionMonotonic == [][C1_Step]_vars

\* An older revision was approved after a newer one had become current.
C1_Witness ==
    /\ last.op = "UpdateRevision"
    /\ last.err = ""
    /\ last.rev \in DOMAIN revs
    /\ revs[last.rev].is_approved
    /\ docs[last.doc].current_revision > last.rev
    /\ docs[last.doc].html # WikiToHtml(revs[last.rev].content)

\* C2: a save, which returns, of an approved revision R of a document without
\* current_revision makes R the current_revision, the rendering of
\* R.content the html and, when R is ready for localization, R the
\* latest_localizable_revision.
C2_Step ==
    (/\ last'.op \in RevisionSaves
     /\ last'.err = ""
     /\ revs'[last'.rev].is_approved
     /\ docs[last'.doc].current_revision = None)
    => /\ docs'[last'.doc].current_revision = last'.rev
       /\ docs'[last'.doc].html = WikiToHtml(revs'[last'.rev].content)
       /\ revs'[last'.rev].is_ready_for_localization
            => docs'[last'.doc].latest_localizable_revision = last'.rev

C2_FirstApprovalBecomesCurrent == [][C2_Step]_vars

\* The first revision ever saved was approved and ready, and is current.
C2_Witness ==
    /\ last.op = "CreateRevision"
    /\ last.err = ""
    /\ last.rev = 1
    /\ revs[1].is_approved /\ revs[1].is_ready_for_localization
    /\ docs[last.doc].current_revision = 1
    /\ docs[last.doc].latest_localizable_revision = 1
    /\ docs[last.doc].html = WikiToHtml(revs[1].content)

\* The approved revisions of document d in table R.
ApprovedOf(R, d) == {r \in DOMAIN R : R[r].document = d /\ R[r].is_approved}

\* C3: deleting the revision that is the document's current_revision makes
\* the highest-id remaining approved revision current and its rendering the
\* html, or leaves no current_revision and the empty html when none remains.
C3_Step ==
    (/\ last'.op = "DeleteRevision"
     /\ docs[last'.doc].current_revision = last'.rev)
    => LET remaining == MaxId(ApprovedOf(revs', last'.doc))
       IN  /\ last'.rev \notin DOMAIN revs'
           /\ docs'[last'.doc].current_revision = remaining
           /\ docs'[last'.doc].html =
                 IF remaining = None THEN EmptyHtml
                 ELSE WikiToHtml(revs'[remaining].content)

C3_DeleteRepointsCurrent == [][C3_Step]_vars

\* The current revision was deleted and an older approved one took over
\* although a newer, unapproved revision remains.
C3_Witness ==
    /\ last.op = "DeleteRevision"
    /\ last.before = last.rev
    /\ docs[last.doc].current_revision # None
    /\ \E r \in RevisionsOf(revs, last.doc) : r > docs[last.doc].current_revision

\* Nothing approved remained when the current revision was deleted.
C3_WitnessNone ==
    /\ last.op = "DeleteRevision"
    /\ last.before = last.rev
    /\ docs[last.doc].current_revision = None
    /\ docs[last.doc].html = EmptyHtml
    /\ RevisionsOf(revs, last.doc) # {}

(***************************************************************************)
(* Inheritance: documents are created in either locale with or without a   *)
(* parent and with the field default is_localizable = True, and their      *)
(* is_localizable, is_archived and category are changed and saved.         *)
(***************************************************************************)
NextInherit ==
    \/ \E title \in {<<"Foo">>, <<"bar">>}, locale \in Locales,
          parent \in DOMAIN docs \cup {None} :
          CreateDocument(title, Lower(title), locale, parent, TRUE, 10, FALSE)
    \/ \E d \in DOMAIN docs, value \in BOOLEAN :
          UpdateDocument(d, "is_localizable", value)
    \/ \E d \in DOMAIN docs, value \in BOOLEAN :
          UpdateDocument(d, "is_archived", value)
    \/ \E d \in DOMAIN docs, value \in {None, 10, 20} :
          UpdateDocument(d, "category", value)

SpecInherit == Init /\ [][NextInherit]_vars

DocumentSaves == {"CreateDocument", "UpdateDocument", "SaveDocument"}

\* Document d has the category and is_archived of its parent.
InheritsFromParent(D, d) ==
    /\ D[d].category = D[D[d].parent].category
    /\ D[d].is_archived = D[D[d].parent].is_archived

\* C4: after a save, which returns, of a document D or of its parent P, the
\* persisted category and is_archived of D equal those of P, for every
\* document D that has a parent.
C4_Step ==
    (last'.op \in DocumentSaves /\ last'.err = "")
    => \A d \in DOMAIN docs' :
          (docs'[d].parent # None /\ last'.doc \in {d, docs'[d].parent})
          => InheritsFromParent(docs', d)

C4_InheritedAfterSave == [][C4_Step]_vars

\* C5: every persisted document of a locale other than the default one has
\* is_localizable = false, although every document is created with
\* is_localizable = True and True is assigned to it again later.
C5_TranslationsNotLocalizable ==
    \A d \in DOMAIN docs :
        docs[d].locale # DEFAULT_LANGUAGE => ~docs[d].is_localizable

\* A document of another locale was saved again after its creation.
C5_Witness ==
    /\ last.op = "UpdateDocument"
    /\ last.err = ""
    /\ docs[last.doc].locale # DEFAULT_LANGUAGE
    /\ ~docs[last.doc].is_localizable

(***************************************************************************)
(* Renames: a document of the default locale is loaded, its slug and title *)
(* are assigned and it is saved, before and after it has an approved       *)
(* revision.  A document of another locale may exist from the start; it    *)
(* has the title of the renamed document and the slug the first redirect   *)
(* of an unchanged slug gets.                                              *)
(***************************************************************************)
NextRename ==
    \/ CreateDocument(<<"Foo">>, <<"foo">>, DEFAULT_LANGUAGE, None, TRUE, 10, FALSE)
    \/ /\ DOMAIN docs = {}
       /\ CreateDocument(<<"Foo">>, FormatTemplate(<<"foo">>, 1), "de", None,
                         TRUE, 10, FALSE)
    \/ \E d \in {d \in DOMAIN docs : docs[d].locale = DEFAULT_LANGUAGE} :
          LoadDocument(d)
    \/ SetAttr("slug", <<"bar">>)
    \/ \E value \in {<<"foo">>, <<"bar">>} : SetAttr("title", value)
    \/ SaveDocument
    \/ \E d \in DOMAIN docs :
          CreateRevision(d, PlainContent, "u1", None, None, TRUE, TRUE, FALSE)

SpecRename == Init /\ [][NextRename]_vars

\* A change of the slug or of the title of the instance is tracked.
Renamed(self) == HasOld(self, "slug") \/ HasOld(self, "title")

\* The step saved the held instance and returned.
SavedHeld == last'.op = "SaveDocument" /\ last'.err = ""

\* The step saved a revision, which became current, so that it saved the
\* revision's document, and returned.
SavedByRevision ==
    /\ last'.op \in RevisionSaves
    /\ last'.err = ""
    /\ docs'[last'.doc].current_revision = last'.rev

\* The step created exactly one document: one of the locale of self, whose
\* title and slug no other document of the locale has, with exactly one
\* revision, which is approved.
OneRedirect(self) ==
    \E r \in DOMAIN docs' :
        /\ DOMAIN docs' \ DOMAIN docs = {r}
        /\ docs'[r].locale = self.locale
        /\ \A d \in DOMAIN docs' \ {r} :
              docs'[d].locale = docs'[r].locale
              => /\ docs'[d].title # docs'[r].title
                 /\ docs'[d].slug # docs'[r].slug
        /\ \E v \in DOMAIN revs' :
              /\ RevisionsOf(revs', r) = {v}
              /\ revs'[v].is_approved

RedirectIffRenamed(self, has_current) ==
    IF has_current /\ Renamed(self) THEN OneRedirect(self)
    ELSE DOMAIN docs' = DOMAIN docs

\* C6: a save, which returns, of an existing document that has a
\* current_revision and a tracked change of title or slug creates exactly one
\* document, in the same locale, whose title and slug no other document of
\* the locale has and which has exactly one revision, an approved one; a save
\* without tracked change or of a document without current_revision creates
\* no document.
C6_Step ==
    /\ SavedHeld => RedirectIffRenamed(inst, inst.current_revision # None)
    /\ SavedByRevision => RedirectIffRenamed(DocumentOf(last'.doc), TRUE)

C6_RenameMakesOneRedirect == [][C6_Step]_vars

\* A rename of the title made a redirect whose title a document of another
\* locale has too.
C6_Witness ==
    /\ last.op = "SaveDocument"
    /\ last.err = ""
    /\ last.redirect # None
    /\ docs[last.redirect].locale = docs[last.doc].locale
    /\ \E v \in DOMAIN revs : RevisionsOf(revs, last.redirect) = {v}
    /\ \E d \in DOMAIN docs : /\ docs[d].locale # docs[last.redirect].locale
                              /\ docs[d].title = docs[last.redirect].title

\* A renamed document without current_revision was saved: no redirect.
C6_WitnessNone ==
    /\ last.op = "SaveDocument"
    /\ last.err = ""
    /\ last.redirect = None
    /\ docs[last.doc].current_revision = None
    /\ docs[last.doc].slug = <<"bar">>

\* The documents the step created are redirects of the instance self as it
\* was before the save.
RedirectOf(self) ==
    \A r \in DOMAIN docs' \ DOMAIN docs :
        /\ \A attr \in {"slug", "title"} :
              IF HasOld(self, attr)
              THEN docs'[r][attr] = GetOld(self, attr)
              ELSE \E n \in 1..(MaxDocs + 1) :
                      docs'[r][attr] = FormatTemplate(self[attr], n)
        /\ ~docs'[r].is_localizable
        /\ docs'[r].category = docs'[self.id].category
        /\ \A v \in RevisionsOf(revs', r) :
              revs'[v].content = RedirectContent(docs'[self.id].title)

\* C7: the redirect has, for each of slug and title, the tracked old value
\* when the attribute changed and a synthesized value when it did not, has
\* is_localizable = false and the category of the renamed document, and the
\* content of its revision is the redirect marker of the title the renamed
\* document has after the rename.
C7_Step ==
    /\ SavedHeld => RedirectOf(inst)
    /\ SavedByRevision => RedirectOf(DocumentOf(last'.doc))

C7_RedirectAttributes == [][C7_Step]_vars

\* Only the slug was changed: the redirect has the old slug, a synthesized
\* title and a marker of the unchanged title.
C7_Witness ==
    /\ last.op = "SaveDocument"
    /\ last.err = ""
    /\ last.redirect # None
    /\ docs[last.doc].slug = <<"bar">>
    /\ docs[last.redirect].slug = <<"foo">>
    /\ docs[last.redirect].title = FormatTemplate(docs[last.doc].title, 1)
    /\ \E v \in RevisionsOf(revs, last.redirect) :
          revs[v].content = RedirectContent(docs[last.doc].title)

\* The persisted documents as loaded, and the held instance.
Instances ==
    {DocInstance(docs, d) : d \in DOMAIN docs}
        \cup (IF inst.id > None THEN {inst} ELSE {})

\* C8: for an instance without tracked old value of attr the generator
\* returns the template formatted with the current value and the smallest
\* n >= 1 for which no document of the locale has the formatted value as
\* attr; n is at most the number of documents plus one, and the result is
\* not the current value.
C8_SynthesizedIsFirstFree ==
    \A self \in Instances, attr \in {"slug", "title"} :
        ~HasOld(self, attr) =>
            LET value == AttrForRedirect(docs, self, attr)
                Taken(n) == \E o \in DOMAIN docs :
                               /\ docs[o].locale = self.locale
                               /\ docs[o][attr] = FormatTemplate(self[attr], n)
            IN  /\ value # self[attr]
                /\ \E n \in 1..(Cardinality(DOMAIN docs) + 1) :
                      /\ value = FormatTemplate(self[attr], n)
                      /\ ~Taken(n)
                      /\ \A m \in 1..(n - 1) : Taken(m)

\* A save made a redirect whose synthesized slug has the number 2.
C8_Witness ==
    /\ last.op = "SaveDocument"
    /\ last.err = ""
    /\ last.redirect # None
    /\ docs[last.redirect].slug = FormatTemplate(docs[last.doc].slug, 2)

(***************************************************************************)
(* Staleness: a document of the default locale and its translation get     *)
(* revisions; those of the translation are based on any revision or on     *)
(* none, and revisions are deleted.                                        *)
(***************************************************************************)
NextOutdated ==
    \/ CreateDocument(<<"Foo">>, <<"foo">>, DEFAULT_LANGUAGE, None, TRUE, 10, FALSE)
    \/ \E parent \in DOMAIN docs \cup {None} :
          CreateDocument(<<"Foo">>, <<"foo">>, "de", parent, TRUE, 10, FALSE)
    \/ \E d \in {d \in DOMAIN docs : docs[d].parent = None},
          significance \in {TYPO_SIGNIFICANCE, MAJOR_SIGNIFICANCE},
          approved \in BOOLEAN, ready \in BOOLEAN :
          CreateRevision(d, PlainContent, "u1", significance, None,
                         approved, approved, ready)
    \/ \E d \in {d \in DOMAIN docs : docs[d].parent # None},
          based_on \in DOMAIN revs \cup {None}, approved \in BOOLEAN :
          CreateRevision(d, PlainContent, "u1", None, based_on,
                         approved, approved, FALSE)
    \/ \E r \in DOMAIN revs : DeleteRevision(r)

SpecOutdated == Init /\ [][NextOutdated]_vars

\* The revisions of the parent of document d that make d outdated at level.
Outdating(d, level) ==
    {r \in DOMAIN revs :
        /\ revs[r].document = docs[d].parent
        /\ revs[r].is_approved
        /\ revs[r].is_ready_for_localization
        /\ revs[r].significance >= level
        /\ (revs[docs[d].current_revision].based_on # None
              => r > revs[docs[d].current_revision].based_on)}

\* C9: is_outdated(T, level) is false when T has no parent or no
\* current_revision and is otherwise true exactly when a revision of T's
\* parent is approved, ready for localization, of significance >= level and
\* of an id greater than the revision T's current_revision is based on, when
\* it is based on one; is_majorly_outdated(T) = is_outdated(T, MAJOR).
C9_OutdatedMeaning ==
    \A d \in DOMAIN docs :
        /\ \A level \in {TYPO_SIGNIFICANCE, MEDIUM_SIGNIFICANCE, MAJOR_SIGNIFICANCE} :
              IsOutdated(DB, DocInstance(docs, d), level)
                = IF docs[d].parent = None \/ docs[d].current_revision = None
                  THEN FALSE
                  ELSE Outdating(d, level) # {}
        /\ IsMajorlyOutdated(DB, DocInstance(docs, d))
             = IsOutdated(DB, DocInstance(docs, d), MAJOR_SIGNIFICANCE)

\* A translation based on a revision of its parent is outdated at the typo
\* level but not at the default and major ones, by a revision newer than the
\* one it is based on: an older one of major significance does not count.
C9_Witness ==
    \E d \in DOMAIN docs :
        /\ docs[d].parent # None
        /\ docs[d].current_revision # None
        /\ revs[docs[d].current_revision].based_on # None
        /\ IsOutdated(DB, DocInstance(docs, d), TYPO_SIGNIFICANCE)
        /\ ~IsOutdated(DB, DocInstance(docs, d), MEDIUM_SIGNIFICANCE)
        /\ ~IsMajorlyOutdated(DB, DocInstance(docs, d))
        /\ \E r \in RevisionsOf(revs, docs[d].parent) :
              /\ r <= revs[docs[d].current_revision].based_on
              /\ revs[r].is_approved /\ revs[r].is_ready_for_localization
              /\ revs[r].significance = MAJOR_SIGNIFICANCE

(***************************************************************************)
(* Links: documents of both locales get approved revisions with and        *)
(* without links, and their outgoing links are recomputed.                 *)
(***************************************************************************)
NextLinks ==
    \/ \E title \in {<<"Foo">>, <<"bar">>}, locale \in Locales :
          CreateDocument(title, Lower(title), locale, None, TRUE, 10, FALSE)
    \/ \E d \in DOMAIN docs, content \in {PlainContent, LinkContent} :
          CreateRevision(d, content, "u1", None, None, TRUE, TRUE, FALSE)
    \/ \E d \in DOMAIN docs : CalculateLinks(d)

SpecLinks == Init /\ [][NextLinks]_vars

\* No two rows of the table L have the same linked_from and linked_to.
NoDuplicateEdge(L) ==
    \A l1 \in L, l2 \in L :
        (l1.linked_from = l2.linked_from /\ l1.linked_to = l2.linked_to) => l1 = l2

\* C10: recomputing the outgoing links of a document leaves the rows that
\* the recomputation before it left when nothing happened in between,
\* raises no exception to the caller, and no two rows share linked_from and
\* linked_to.
C10_Step ==
    /\ NoDuplicateEdge(links')
    /\ last'.op = "CalculateLinks"
         => /\ last'.err = ""
            /\ (last.op = "CalculateLinks" /\ last.doc = last'.doc) => links' = links

C10_RecomputeIdempotent == [][C10_Step]_vars

\* The links of a document whose content names one target twice and in two
\* kinds were recomputed twice in a row; it links to two documents.
C10_Witness ==
    /\ last.op = "CalculateLinks"
    /\ last.repeat
    /\ last.err = ""
    /\ docs[last.doc].current_revision # None
    /\ revs[docs[last.doc].current_revision].content = LinkContent
    /\ Cardinality(LinksFrom(links, last.doc)) = 2

(***************************************************************************)
(* Races: two requests create documents, among them translations of the   *)
(* first document, and rename them to one title; the first document gets   *)
(* approved revisions in between.                                          *)
(***************************************************************************)
NextRace ==
    \/ \E p \in Procs,
          name \in {<<"Foo", "foo">>, <<"Foo", "bar">>, <<"baz", "bar">>} :
          BeginCreate(p, <<name[1]>>, <<name[2]>>, DEFAULT_LANGUAGE, None)
    \/ \E p \in Procs : BeginCreate(p, <<"Foo">>, <<"foo">>, "de", 1)
    \/ \E p \in Procs, d \in DOMAIN docs : BeginRename(p, d, "title", <<"bar">>)
    \/ \E p \in Procs : WriteRow(p)
    \/ \E p \in Procs : FinishSave(p)
    \/ CreateRevision(1, PlainContent, "u1", None, None, TRUE, TRUE, FALSE)

SpecRace == Init /\ [][NextRace]_vars

\* C11: no two persisted documents of a locale have the same title, the same
\* slug or the same parent, in every state that the steps of two concurrent
\* requests reach.
C11_UniqueInLocale ==
    \A d1 \in DOMAIN docs, d2 \in DOMAIN docs :
        (d1 # d2 /\ docs[d1].locale = docs[d2].locale)
        => /\ docs[d1].title # docs[d2].title
           /\ docs[d1].slug # docs[d2].slug
           /\ docs[d1].parent # None => docs[d1].parent # docs[d2].parent

\* Two requests passed the checks renaming two documents to one title; the
\* row write of the second raised.
C11_Witness ==
    /\ last.op = "WriteRow"
    /\ last.err = "IntegrityError"
    /\ last.doc \in DOMAIN docs
    /\ docs[last.doc].title # <<"bar">>
    /\ \E p \in Procs :
          /\ procs[p].pc = "written"
          /\ procs[p].self.id # last.doc
          /\ docs[procs[p].self.id].title = <<"bar">>

\* Two requests passed the checks creating a translation of one document;
\* the row write of the second raised.
C11_WitnessParent ==
    /\ last.op = "WriteRow"
    /\ last.err = "IntegrityError"
    /\ last.doc = None
    /\ \E p \in Procs :
          /\ procs[p].pc = "written"
          /\ procs[p].self.parent # None

(***************************************************************************)
(* Collisions: documents are created and renamed with titles and slugs     *)
(* that other documents of the locale have or had; while a request holds   *)
(* an instance, another request creates documents.                         *)
(***************************************************************************)
NextCollide ==
    \/ \E title \in {<<"Foo">>, <<"bar">>}, slug \in {<<"foo">>, <<"bar">>} :
          Instantiate(title, slug, DEFAULT_LANGUAGE, None)
    \/ SaveNew
    \/ \E d \in DOMAIN docs : LoadDocument(d)
    \/ \E value \in {<<"Foo">>, <<"bar">>} : SetAttr("title", value)
    \/ \E value \in {<<"foo">>, <<"bar">>} : SetAttr("slug", value)
    \/ SaveDocument
    \/ \E title \in {<<"Foo">>, <<"bar">>}, slug \in {<<"foo">>, <<"bar">>} :
          BeginCreate("p1", title, slug, DEFAULT_LANGUAGE, None)
    \/ WriteRow("p1")
    \/ FinishSave("p1")

SpecCollide == Init /\ [][NextCollide]_vars

\* A document other than the held instance has, in its locale, its attr.
TakenByOther(attr) ==
    \E d \in DOMAIN docs \ {inst.id} :
        docs[d].locale = inst.locale /\ docs[d][attr] = inst[attr]

\* The step raised exception and left the tables as they were.
FailsWith(exception) ==
    /\ last'.err = exception
    /\ UNCHANGED <<docs, revs, contributors, links>>

\* C12: a save of a document whose slug is the slug of another document of
\* the locale raises SlugCollision, one whose title is the title of another
\* while its slug is free raises TitleCollision, and neither persists
\* anything.
C12_Step ==
    last'.op \in {"SaveNew", "SaveDocument"} =>
        /\ TakenByOther("slug") => FailsWith("SlugCollision")
        /\ (TakenByOther("title") /\ ~TakenByOther("slug"))
              => FailsWith("TitleCollision")

C12_CollisionRaised == [][C12_Step]_vars

\* C13: every persisted revision that is ready for localization is approved,
\* of a document of the default locale and of a significance above typo,
\* that is, it can be readied for localization.
C13_ReadyIsApproved ==
    \A r \in DOMAIN revs :
        revs[r].is_ready_for_localization
        => CanBeReadiedForLocalization(RevInstance(revs, r),
                                       DocInstance(docs, revs[r].document))

(***************************************************************************)
(* Based-on: a document of the default locale and one of another locale,   *)
(* created with or without parent, get revisions based on any revision or  *)
(* on none; revisions are deleted, and the parent of a document is         *)
(* assigned and saved.                                                     *)
(***************************************************************************)
NextBasedOn ==
    \/ CreateDocument(<<"Foo">>, <<"foo">>, DEFAULT_LANGUAGE, None, TRUE, 10, FALSE)
    \/ \E parent \in DOMAIN docs \cup {None} :
          CreateDocument(<<"Foo">>, <<"foo">>, "de", parent, TRUE, 10, FALSE)
    \/ \E d \in DOMAIN docs, based_on \in DOMAIN revs \cup {None} :
          CreateRevision(d, PlainContent, "u1", None, based_on, TRUE, TRUE, FALSE)
    \/ \E r \in DOMAIN revs : DeleteRevision(r)
    \/ \E d \in DOMAIN docs :
          \E parent \in (DOMAIN docs \cup {None}) \ {d} :
             UpdateDocument(d, "parent", parent)

SpecBasedOn == Init /\ [][NextBasedOn]_vars

\* Every revision of table R is based on no revision or on one of the
\* original of its document in table D.
BasedOnOriginal(D, R) ==
    \A r \in DOMAIN R :
        R[r].based_on # None
        => /\ R[r].based_on \in DOMAIN R
           /\ R[R[r].based_on].document = Original(DocInstance(D, R[r].document))

\* C14: a revision save that raises for a based_on of a document other than
\* the original persists nothing, and after every step each persisted
\* revision is based on no revision or on one of its document's original.
C14_Step ==
    /\ (last'.op \in RevisionSaves /\ last'.err = "ProgrammingError")
          => UNCHANGED <<docs, revs, contributors, links>>
    /\ BasedOnOriginal(docs', revs')

C14_BasedOnOriginal == [][C14_Step]_vars


(***************************************************************************)
(* Failures inside a revision save.                                        *)
(***************************************************************************)
\* The rows, links and contributors are those before the step.
NothingWritten ==
    /\ docs' = docs
    /\ revs' = revs
    /\ contributors' = contributors
    /\ links' = links

\* C15: a save of an approved revision that raises, at the revision write,
\* the document update or the redirect it makes, leaves none of its writes:
\* the approved revision is not persisted beside a document whose
\* current_revision and html were not updated for it.
C15_Step ==
    (last'.op \in RevisionSaves /\ last'.err # "") => NothingWritten

C15_FailedRevisionSaveRollsBack == [][C15_Step]_vars


(***************************************************************************)
(* The redirect of a rename among concurrent saves.                        *)
(***************************************************************************)
\* Request p ends, with this step, the save of a renamed document that has a
\* current_revision.
EndsRename(p) ==
    /\ procs[p].pc = "written"
    /\ procs'[p].pc = "idle"
    /\ NeedsRedirect(procs[p].self)

\* The step created a document that has an approved revision.
RedirectCreated ==
    \E r \in DOMAIN docs' \ DOMAIN docs :
        \E v \in RevisionsOf(revs', r) : revs'[v].is_approved

\* The row of self has, for every attribute with a tracked change, the old
\* value.
UnderOldName(self) ==
    \A attr \in {"slug", "title"} :
        HasOld(self, attr) => docs'[self.id][attr] = GetOld(self, attr)

\* C16: when the save of a renamed document that has a current_revision
\* ends, also by an exception of the redirect's document or revision insert,
\* the redirect document with its approved revision exists or the document is
\* not persisted under its new slug or title.
C16_Step ==
    \A p \in Procs :
        EndsRename(p) => RedirectCreated \/ UnderOldName(procs[p].self)

C16_RedirectAtomicWithRename == [][C16_Step]_vars


(***************************************************************************)
(* Concurrent saves of revisions of one document.                          *)
(***************************************************************************)
NextApprove ==
    \/ CreateDocument(<<"Foo">>, <<"foo">>, DEFAULT_LANGUAGE, None, TRUE, 10, FALSE)
    \/ \E p \in Procs, d \in DOMAIN docs : LoadCopy(p, d)
    \/ \E p \in Procs, content \in {PlainContent, OtherContent},
          approved \in BOOLEAN : WriteRevision(p, content, approved)
    \/ \E p \in Procs : FinishRevisionSave(p)

SpecApprove == Init /\ [][NextApprove]_vars

\* No request is inside a save.
AllIdle == \A p \in Procs : procs[p].pc = "idle"

\* C17: when the concurrent saves of approved revisions of a document, each
\* on its own loaded copy of the document, have completed, the persisted
\* current_revision of the document is the approved revision of the highest
\* id.
C17_HighestApprovedWins ==
    AllIdle => \A d \in DOMAIN docs :
                  docs[d].current_revision = MaxId(ApprovedOf(revs, d))


(***************************************************************************)
(* Validation: documents of either locale are instantiated, with or        *)
(* without a parent, and saved; a loaded document is archived, loses its   *)
(* category or has is_localizable assigned, and is saved.                  *)
(***************************************************************************)
NextValidate ==
    \/ \E title \in {<<"Foo">>, <<"bar">>}, locale \in Locales,
          parent \in DOMAIN docs \cup {None} :
          Instantiate(title, Lower(title), locale, parent)
    \/ SaveNew
    \/ \E d \in DOMAIN docs : LoadDocument(d)
    \/ SetField("is_archived", TRUE)
    \/ SetField("category", None)
    \/ \E value \in BOOLEAN : SetField("is_localizable", value)
    \/ SaveDocument

SpecValidate == Init /\ [][NextValidate]_vars

\* The step is a save of the instance held.
SavesHeld == last'.op \in {"SaveNew", "SaveDocument"}

\* C18: a document save that raises a validation error or a collision error
\* has made no persistent write; in particular the is_archived of the
\* document's translations is what it was before a save that fails the
\* category validation.
C18_Step ==
    (/\ SavesHeld
     /\ last'.err \in {"ValidationError", "SlugCollision", "TitleCollision"})
    => NothingWritten

C18_FailedSaveWritesNothing == [][C18_Step]_vars


\* The instance held is a translation whose parent is not localizable.
ParentNotLocalizable ==
    inst.parent \in DOMAIN docs /\ ~docs[inst.parent].is_localizable

\* Document d is the parent of a persisted document.
HasTranslation(D, d) == \E t \in DOMAIN D : D[t].parent = d

\* The instance held is an existing document that has translations and is
\* saved as not localizable.
NotLocalizableWithTranslations ==
    /\ inst.id \in DOMAIN docs
    /\ ~inst.is_localizable
    /\ HasTranslation(docs, inst.id)

\* C19: every persisted document that has a translation has is_localizable =
\* true; the save of a translation whose parent is not localizable and the
\* save of an existing document that has translations as not localizable
\* raise and persist nothing.
C19_Step ==
    /\ \A d \in DOMAIN docs' :
          HasTranslation(docs', d) => docs'[d].is_localizable
    /\ (SavesHeld /\ (ParentNotLocalizable \/ NotLocalizableWithTranslations))
       => (last'.err # "" /\ NothingWritten)

C19_TranslatedIsLocalizable == [][C19_Step]_vars

\* The save of a translation raised: its parent is a document of the default
\* locale that was saved as not localizable.
C19_Witness ==
    /\ last.op = "SaveNew"
    /\ last.err = "ValidationError"
    /\ \A d \in DOMAIN docs : docs[d].locale = DEFAULT_LANGUAGE
    /\ \E d \in DOMAIN docs : ~docs[d].is_localizable


(***************************************************************************)
(* The stored current_revision and html against the revision history.      *)
(***************************************************************************)
\* Revisions of a document are saved, reviewed and readied, and deleted.
NextHistory ==
    \/ CreateDocument(<<"Foo">>, <<"foo">>, DEFAULT_LANGUAGE, None, TRUE, 10, FALSE)
    \/ \E d \in DOMAIN docs, content \in {PlainContent, OtherContent},
          approved \in BOOLEAN, ready \in BOOLEAN :
          CreateRevision(d, content, "u1", MAJOR_SIGNIFICANCE, None,
                         approved, approved, ready)
    \/ \E r \in DOMAIN revs, approved \in BOOLEAN, ready \in BOOLEAN :
          UpdateRevision(r, approved, approved, ready)
    \/ \E r \in DOMAIN revs : DeleteRevision(r)

SpecHistory == Init /\ [][NextHistory]_vars

\* What recomputation from the revisions of document d yields.
Recomputed(R, d) ==
    LET current == MaxId(ApprovedOf(R, d))
    IN  [current_revision |-> current,
         html |-> IF current = None THEN EmptyHtml
                  ELSE WikiToHtml(R[current].content)]

\* C20: in every state reached by revision saves, approval and readiness
\* toggles and revision deletions, the current_revision of every document is
\* None when the document has no approved revision and else its approved
\* revision of the highest id, and its html is the rendering of that
\* revision's content, empty when there is none.
C20_StoredEqualsRecomputed ==
    \A d \in DOMAIN docs :
        /\ docs[d].current_revision = Recomputed(revs, d).current_revision
        /\ docs[d].html = Recomputed(revs, d).html


(***************************************************************************)
(* latest_localizable_revision.                                            *)
(***************************************************************************)
\* The approved revisions of document d that are ready for localization.
ReadyOf(R, d) == {r \in ApprovedOf(R, d) : R[r].is_ready_for_localization}

\* C21: the latest_localizable_revision of every document is None or an
\* approved revision of the document that is ready for localization, and no
\* approved and ready revision of the document has a larger id.
C21_LatestLocalizable ==
    \A d \in DOMAIN docs :
        LET latest == docs[d].latest_localizable_revision
        IN  latest # None =>
               /\ latest \in ReadyOf(revs, d)
               /\ \A r \in ReadyOf(revs, d) : r <= latest


\* The step deleted a revision.
Deleted == last'.op = "DeleteRevision" /\ last'.err = ""

\* C22: deleting the revision that is the latest_localizable_revision of its
\* document sets the field to the remaining approved and ready revision of
\* the document of the highest id, or to None; deleting a revision that is
\* neither the current_revision nor the latest_localizable_revision leaves
\* both fields and html as they were.
C22_Step ==
    Deleted =>
      LET r == last'.rev
          d == last'.doc
      IN  /\ docs[d].latest_localizable_revision = r
             => docs'[d].latest_localizable_revision = MaxId(ReadyOf(revs, d) \ {r})
          /\ (docs[d].latest_localizable_revision # r /\ docs[d].current_revision # r)
             => /\ docs'[d].latest_localizable_revision
                     = docs[d].latest_localizable_revision
                /\ docs'[d].current_revision = docs[d].current_revision
                /\ docs'[d].html = docs[d].html

C22_DeleteRepointsLocalizable == [][C22_Step]_vars

\* The latest_localizable_revision was deleted and an older approved and
\* ready revision took its place, with a newer ready revision left that is
\* not approved.
C22_Witness ==
    /\ last.op = "DeleteRevision"
    /\ last.latest = last.rev
    /\ docs[last.doc].latest_localizable_revision \in ReadyOf(revs, last.doc)
    /\ \E r \in RevisionsOf(revs, last.doc) :
          /\ r > docs[last.doc].latest_localizable_revision
          /\ revs[r].is_ready_for_localization

\* A revision that was neither current nor the latest localizable one was
\* deleted from a document that has both.
C22_WitnessOther ==
    /\ last.op = "DeleteRevision"
    /\ last.latest \notin {None, last.rev}
    /\ last.before \notin {None, last.rev}


\* C23: no persisted revision's based_on and no document's current_revision
\* or latest_localizable_revision refers to a revision that is not
\* persisted, whatever was deleted.
C23_NoDanglingReference ==
    /\ \A r \in DOMAIN revs : revs[r].based_on \in DOMAIN revs \cup {None}
    /\ \A d \in DOMAIN docs :
          /\ docs[d].current_revision \in DOMAIN revs \cup {None}
          /\ docs[d].latest_localizable_revision \in DOMAIN revs \cup {None}

\* The revision deleted was the current_revision and the
\* latest_localizable_revision of its document, which has a translation with
\* a revision that is based on nothing.
C23_Witness ==
    /\ last.op = "DeleteRevision"
    /\ last.before = last.rev
    /\ last.latest = last.rev
    /\ \E t \in DOMAIN docs :
          /\ docs[t].parent = last.doc
          /\ \E r \in RevisionsOf(revs, t) : revs[r].based_on = None


(***************************************************************************)
(* Review: revisions of an original and of its translation are saved       *)
(* unreviewed, rejected or approved, ready for localization or not, and    *)
(* deleted.                                                                *)
(***************************************************************************)
NextReview ==
    \/ CreateDocument(<<"Foo">>, <<"foo">>, DEFAULT_LANGUAGE, None, TRUE, 10, FALSE)
    \/ \E parent \in DOMAIN docs :
          CreateDocument(<<"Foo">>, <<"foo">>, "de", parent, TRUE, 10, FALSE)
    \/ \E d \in DOMAIN docs, approved \in BOOLEAN, reviewed \in BOOLEAN,
          ready \in BOOLEAN :
          /\ approved => reviewed
          /\ CreateRevision(d, PlainContent, "u1", MAJOR_SIGNIFICANCE, None,
                            approved, reviewed, ready)
    \/ \E r \in DOMAIN revs : DeleteRevision(r)

SpecReview == Init /\ [][NextReview]_vars

\* The four choices in their order: the first that is not None.
FirstOf(choices) ==
    IF \A i \in DOMAIN choices : choices[i] = None THEN None
    ELSE choices[CHOOSE i \in DOMAIN choices :
                    /\ choices[i] # None
                    /\ \A j \in 1..(i - 1) : choices[j] = None]

\* C24: localizable_or_latest_revision(include_rejected) of a document is its
\* latest_localizable_revision when that is set and the document is
\* localizable; else its approved revision of the highest id; else its
\* revision of the highest id that is not rejected; else, only when
\* include_rejected, its revision of the highest id; else None.
C24_LocalizableOrLatest ==
    \A d \in DOMAIN docs, include_rejected \in BOOLEAN :
        LET mine == RevisionsOf(revs, d)
        IN  LocalizableOrLatestRevision(DB, DocInstance(docs, d), include_rejected)
            = FirstOf(<<IF docs[d].is_localizable
                        THEN docs[d].latest_localizable_revision ELSE None,
                        MaxId(ApprovedOf(revs, d)),
                        MaxId({r \in mine : ~(revs[r].reviewed /\ ~revs[r].is_approved)}),
                        IF include_rejected THEN MaxId(mine) ELSE None>>)

\* A document that is not localizable has a latest_localizable_revision and
\* a newer approved revision, which is the one returned.
C24_Witness ==
    \E d \in DOMAIN docs :
        /\ ~docs[d].is_localizable
        /\ docs[d].latest_localizable_revision # None
        /\ LocalizableOrLatestRevision(DB, DocInstance(docs, d), FALSE)
             > docs[d].latest_localizable_revision

\* A document has rejected revisions only: one is returned only with
\* include_rejected.
C24_WitnessRejected ==
    \E d \in DOMAIN docs :
        /\ LocalizableOrLatestRevision(DB, DocInstance(docs, d), FALSE) = None
        /\ LocalizableOrLatestRevision(DB, DocInstance(docs, d), TRUE) # None


(***************************************************************************)
(* Cleaning: one request makes a revision of an original, of its           *)
(* translation or of no document, based on any revision or none, cleans it *)
(* or not, and saves it.                                                   *)
(***************************************************************************)
NextClean ==
    \/ CreateDocument(<<"Foo">>, <<"foo">>, DEFAULT_LANGUAGE, None, TRUE, 10, FALSE)
    \/ \E parent \in DOMAIN docs \cup {None} :
          CreateDocument(<<"Foo">>, <<"foo">>, "de", parent, TRUE, 10, FALSE)
    \/ \E d \in DOMAIN docs \cup {None}, based_on \in DOMAIN revs \cup {None},
          approved \in BOOLEAN :
          BuildRevision("p1", d, PlainContent, based_on, approved, approved)
    \/ CleanRevision("p1")
    \/ SaveBuilt("p1")

SpecClean == Init /\ [][NextClean]_vars

\* Request p holds a revision whose based_on is a revision of a document
\* other than the original of the revision's document.
BadlyBased(p) ==
    /\ procs[p].rev.document # None
    /\ ~BasedOnIsClean(revs, procs[p].rev, procs[p].self)

\* Request p cleans, with this step, the revision it holds.
Cleans(p) == procs[p].pc = "built" /\ procs'[p].pc \in {"cleaned", "invalid"}

\* Request p saves, with this step, the revision it holds, and save()
\* returns.
Saves(p) ==
    /\ procs[p].pc \in {"built", "cleaned", "invalid"}
    /\ procs'[p].pc = "idle"
    /\ last'.err = ""

\* C25: clean() of a revision whose based_on is a revision of a document
\* other than document.original raises ValidationError and leaves based_on =
\* original.localizable_or_latest_revision(); any other clean() leaves
\* based_on of a revision of a document as it is, and a save() that returns
\* persists the based_on the revision had, so that a corrected based_on is
\* persisted only after clean() raised.
C25_Step ==
    \A p \in Procs :
        /\ (Cleans(p) /\ BadlyBased(p))
           => /\ last'.err = "ValidationError"
              /\ procs'[p].rev.based_on =
                    LocalizableOrLatestRevision(DB,
                        DocInstance(docs, Original(procs[p].self)), FALSE)
        /\ (Cleans(p) /\ ~BadlyBased(p) /\ procs[p].rev.document # None)
           => procs'[p].rev.based_on = procs[p].rev.based_on
        /\ Saves(p)
           => /\ ~BadlyBased(p)
              /\ revs'[last'.rev].based_on = procs[p].rev.based_on

C25_CorrectedBasedOnIsSignalled == [][C25_Step]_vars

\* clean() of a revision raised and left it based on a revision of the
\* original of its document.
C25_Witness ==
    /\ last.op = "CleanRevision"
    /\ last.err = "ValidationError"
    /\ procs["p1"].pc = "invalid"
    /\ procs["p1"].rev.based_on # None
    /\ revs[procs["p1"].rev.based_on].document = Original(procs["p1"].self)


(***************************************************************************)
(* Changes of letter case and reverted changes of slug and title.          *)
(***************************************************************************)
\* The two values differ, and only in letter case.
CaseOnly(old, new) == old # new /\ Lower(old) = Lower(new)

\* The step assigned to attribute name of the instance held a value that
\* differs from the present one only in letter case.
AssignsCaseOnly(name) ==
    /\ last'.op = "SetAttr"
    /\ CaseOnly(inst[name], inst'[name])

\* C26: the assignment, to the slug or title of a persisted document, of a
\* value that differs from the present one only in letter case records no old
\* value, and the save of a document without tracked change whose slug or
\* title differs from the persisted one only in letter case creates no
\* document, also when the document has a current_revision.
C26_Step ==
    /\ \A name \in {"slug", "title"} :
          AssignsCaseOnly(name)
          => inst'[OldAttr(name)] \in {inst[OldAttr(name)], <<>>}
    /\ (/\ SavedHeld
        /\ ~Renamed(inst)
        /\ \E name \in {"slug", "title"} : CaseOnly(docs[inst.id][name], inst[name]))
       => DOMAIN docs' = DOMAIN docs

C26_CaseChangeMakesNoRedirect == [][C26_Step]_vars

\* The only document has a current_revision and was saved with a title that
\* differs from the one it was created with in letter case: no redirect.
C26_Witness ==
    /\ last.op = "SaveDocument"
    /\ last.err = ""
    /\ last.redirect = None
    /\ DOMAIN docs = {last.doc}
    /\ docs[last.doc].title = <<"foo">>
    /\ docs[last.doc].current_revision # None


\* The step assigned to attribute name of the instance held the old value
\* tracked for it.
Reverts(name) ==
    /\ last'.op = "SetAttr"
    /\ HasOld(inst, name)
    /\ inst'[name] = GetOld(inst, name)

\* The exception of the collision check of the attribute.
CollisionOf(name) == IF name = "slug" THEN "SlugCollision" ELSE "TitleCollision"

\* C27: assigning back exactly the tracked old value of the slug or title
\* removes the marker of the pending change and leaves the instance as if the
\* attribute had never been assigned, with the persisted value; the save of
\* an instance without marker for an attribute runs no collision check for
\* it, and creates no document when neither attribute has a marker.
C27_Step ==
    /\ \A name \in {"slug", "title"} :
          /\ Reverts(name)
             => /\ ~HasOld(inst', name)
                /\ inst'[name] = docs[inst.id][name]
          /\ (last'.op = "SaveDocument" /\ ~HasOld(inst, name))
             => last'.err # CollisionOf(name)
    /\ (SavedHeld /\ ~Renamed(inst)) => DOMAIN docs' = DOMAIN docs

SavesAgain ==
    /\ last.op = "SaveDocument"
    /\ last.err = ""
    /\ last.redirect # None
    /\ last'.op = "SaveDocument"

\* C28: the save of a document instance right after the save of it that made
\* a redirect, with no assignment between them, returns and creates no
\* document; and the save that makes a redirect creates one document only,
\* with one revision only: the save of the redirect and the save of its
\* revision make no redirect of the redirect.
C28_Step ==
    /\ SavesAgain => (last'.err = "" /\ DOMAIN docs' = DOMAIN docs)
    /\ (last'.op = "SaveDocument" /\ last'.redirect # None)
       => /\ DOMAIN docs' \ DOMAIN docs = {last'.redirect}
          /\ Cardinality(RevisionsOf(revs', last'.redirect)) = 1
          /\ Cardinality(DOMAIN revs' \ DOMAIN revs) = 1

C28_NoSecondRedirect == [][C28_Step]_vars

\* The renamed document, whose redirect exists, was saved by an instance
\* without tracked change, and no document was made.
C28_Witness ==
    /\ last.op = "SaveDocument"
    /\ last.err = ""
    /\ last.redirect = None
    /\ inst.id = last.doc
    /\ ~Renamed(inst)
    /\ \E r \in DOMAIN docs, v \in DOMAIN revs :
          /\ revs[v].document = r
          /\ revs[v].content = RedirectContent(docs[last.doc].title)


(***************************************************************************)
(* Links after a change of the current revision: revisions with and        *)
(* without links are approved and deleted.                                 *)
(***************************************************************************)
NextRelink ==
    \/ \E title \in {<<"Foo">>, <<"bar">>} :
          CreateDocument(title, Lower(title), DEFAULT_LANGUAGE, None, TRUE, 10, FALSE)
    \/ \E d \in DOMAIN docs, content \in {PlainContent, LinkContent} :
          CreateRevision(d, content, "u1", None, None, TRUE, TRUE, FALSE)
    \/ \E r \in DOMAIN revs : DeleteRevision(r)

SpecRelink == Init /\ [][NextRelink]_vars

\* The database after the step.
DBAfter == Database(docs', revs', contributors', links', nextRevId')

\* The step, a revision save or deletion that returned, changed the
\* current_revision of document d.
ChangesCurrent(d) ==
    /\ last'.op \in RevisionSaves \cup {"DeleteRevision"}
    /\ last'.err = ""
    /\ last'.doc = d
    /\ docs'[d].current_revision # docs[d].current_revision

\* C29: after a revision save or deletion that changed the current_revision
\* of a document, the rows linked_from the document are those that the links
\* of the content of its current revision yield; when it has no
\* current_revision any more, its rows are those of before.
C29_Step ==
    \A d \in DOMAIN docs :
        ChangesCurrent(d) =>
           IF docs'[d].current_revision # None
           THEN LinksFrom(links', d)
                  = LinksFrom(ParseAndCalculateLinks(
                                 Running(DBAfter, DocInstance(docs', d))).db.links, d)
           ELSE LinksFrom(links', d) = LinksFrom(links, d)

C29_LinksFollowCurrent == [][C29_Step]_vars


(***************************************************************************)
(* Contributors: two users save revisions of a document, unreviewed,       *)
(* rejected or approved; revisions are reviewed later and deleted.         *)
(***************************************************************************)
NextContribute ==
    \/ CreateDocument(<<"Foo">>, <<"foo">>, DEFAULT_LANGUAGE, None, TRUE, 10, FALSE)
    \/ \E d \in DOMAIN docs, creator \in {"u1", "u2"},
          approved \in BOOLEAN, reviewed \in BOOLEAN :
          /\ approved => reviewed
          /\ CreateRevision(d, PlainContent, creator, MAJOR_SIGNIFICANCE, None,
                            approved, reviewed, FALSE)
    \/ \E r \in DOMAIN revs, approved \in BOOLEAN :
          UpdateRevision(r, approved, TRUE, FALSE)
    \/ \E r \in DOMAIN revs : DeleteRevision(r)

SpecContribute == Init /\ [][NextContribute]_vars

\* The step, a revision save that returned, made the revision saved the
\* current_revision of document d.
BecameCurrent(d) ==
    /\ last'.op \in RevisionSaves
    /\ last'.err = ""
    /\ last'.doc = d
    /\ docs'[d].current_revision = last'.rev
    /\ docs[d].current_revision # last'.rev

\* The creators of the revisions of d, as persisted after the step, that are
\* not rejected and newer than the current_revision of before the step.
CreatorsSince(d) ==
    {revs'[r].creator :
        r \in {v \in RevisionsOf(revs', d) :
                  /\ ~(revs'[v].reviewed /\ ~revs'[v].is_approved)
                  /\ (docs[d].current_revision = None
                      \/ v > docs[d].current_revision)}}

\* C30: when an approved revision becomes the current_revision of a
\* document, the document's contributors are afterwards those of before and
\* the creators of all its revisions that are not rejected and have an id
\* greater than that of the current_revision of before, of all such revisions
\* when there was none; and no step removes a contributor of a document.
C30_Step ==
    \A d \in DOMAIN docs :
        /\ BecameCurrent(d) => contributors'[d] = contributors[d] \cup CreatorsSince(d)
        /\ contributors[d] \subseteq contributors'[d]

C30_ContributorsGrow == [][C30_Step]_vars

\* An approved revision became current while a rejected revision of another
\* user exists: that user is no contributor.
C30_Witness ==
    /\ last.op \in RevisionSaves
    /\ last.err = ""
    /\ docs[last.doc].current_revision = last.rev
    /\ \E r \in RevisionsOf(revs, last.doc) :
          /\ revs[r].reviewed
          /\ ~revs[r].is_approved
          /\ revs[r].creator \notin contributors[last.doc]

\* The revision of a contributor was deleted, who is a contributor still.
C30_WitnessDeleted ==
    /\ last.op = "DeleteRevision"
    /\ last.err = ""
    /\ \E u \in contributors[last.doc] :
          \A r \in RevisionsOf(revs, last.doc) : revs[r].creator # u

(***************************************************************************)
(* Lookups by URL: documents and translations of both titles and slugs.    *)
(***************************************************************************)
NextUrl ==
    \/ \E title \in {<<"Foo">>, <<"bar">>}, slug \in {<<"foo">>, <<"bar">>},
          locale \in Locales, parent \in DOMAIN docs \cup {None} :
          CreateDocument(title, slug, locale, parent, TRUE, 10, FALSE)

SpecUrl == Init /\ [][NextUrl]_vars

\* The documents of locale and slug.
DocsAt(locale, slug) ==
    {d \in DOMAIN docs : docs[d].locale = locale /\ docs[d].slug = slug}

\* The documents of locale whose parent is document e.
DocsFrom(e, locale) ==
    {d \in DOMAIN docs : docs[d].locale = locale /\ docs[d].parent = e}

\* What the lookup of a document URL of locale L and slug S is to return.
Addressed(L, S, host, required_locale, check_host) ==
    IF (host /\ check_host) \/ (required_locale # NoLocale /\ required_locale # L)
    THEN None
    ELSE IF DocsAt(L, S) # {} THEN MaxId(DocsAt(L, S))
    ELSE IF DocsAt(DEFAULT_LANGUAGE, S) = {} THEN None
    ELSE LET e == MaxId(DocsAt(DEFAULT_LANGUAGE, S))
         IN  IF DocsFrom(e, L) # {} THEN MaxId(DocsFrom(e, L)) ELSE e

\* C31: from_url of a document URL of locale L and slug S returns the
\* document of (L, S) when there is one; else, when there is a
\* default-locale document of slug S, its translation into L when it has one
\* and else that document; and None when there is neither, when the URL has
\* a host and check_host is set, or when required_locale is not L.
C31_FromUrl ==
    \A url \in Urls, required_locale \in Locales \cup {NoLocale}, check_host \in BOOLEAN :
        url.view = "document" =>
           FromUrl(DB, url, required_locale, check_host)
             = Found(Addressed(url.locale, url.slug, url.netloc,
                               required_locale, check_host), "")

\* There is no document of locale de and slug foo, and the lookup of that
\* URL returns the translation into de, of another slug, of the en-US
\* document of slug foo.
C31_Witness ==
    LET url == [netloc |-> FALSE, locale |-> "de", view |-> "document", slug |-> <<"foo">>]
        found == FromUrl(DB, url, "de", TRUE)
    IN  /\ DocsAt("de", <<"foo">>) = {}
        /\ found.err = ""
        /\ found.doc # None
        /\ docs[found.doc].locale = "de"
        /\ docs[found.doc].slug # <<"foo">>
        /\ docs[found.doc].parent \in DocsAt(DEFAULT_LANGUAGE, <<"foo">>)

\* The same URL returns the en-US document, which has no translation into
\* de, although a document of locale de exists.
C31_WitnessDefault ==
    LET url == [netloc |-> FALSE, locale |-> "de", view |-> "document", slug |-> <<"foo">>]
        found == FromUrl(DB, url, NoLocale, TRUE)
    IN  /\ found.err = ""
        /\ found.doc \in DocsAt(DEFAULT_LANGUAGE, <<"foo">>)
        /\ \E d \in DOMAIN docs : docs[d].locale = "de"

\* C32: the redirect that a save makes has, for each of slug and title that
\* the instance tracks as changed, the value the document's row had
\* immediately before that save.
C32_Step ==
    (SavedHeld /\ inst.id \in DOMAIN docs /\ Renamed(inst)) =>
        \A r \in DOMAIN docs' \ DOMAIN docs, attr \in {"slug", "title"} :
            HasOld(inst, attr) => docs'[r][attr] = docs[inst.id][attr]

C32_RedirectHasStoredName == [][C32_Step]_vars

\* The step is the save of the instance right after a save of it that
\* returned, with no assignment between them, and the first save was that
\* of a renamed document: it made a redirect, or the instance still tracks
\* the change.
SavesRenamedAgain ==
    /\ last.op = "SaveDocument"
    /\ last.err = ""
    /\ last.redirect # None \/ Renamed(inst)
    /\ last'.op = "SaveDocument"

\* C33: the save of an instance right after a successful save of it as a
\* renamed document, with title and slug unchanged, raises neither
\* SlugCollision nor TitleCollision, whether the document has a
\* current_revision or not.
C33_Step ==
    SavesRenamedAgain => last'.err \notin {"SlugCollision", "TitleCollision"}

C33_NoCollisionWithOwnRow == [][C33_Step]_vars

\* C34: in every state, a document that has a parent is of a non-default
\* locale, has no translations, and its parent is a default-locale document
\* that has no parent.
C34_OneLevelOfTranslation ==
    \A d \in DOMAIN docs :
        docs[d].parent # None =>
           /\ docs[d].locale # DEFAULT_LANGUAGE
           /\ ~HasTranslation(docs, d)
           /\ docs[d].parent \in DOMAIN docs
           /\ docs[docs[d].parent].locale = DEFAULT_LANGUAGE
           /\ docs[docs[d].parent].parent = None

\* The fields of a document row that a deletion of a revision may re-point.
RepointedFields == {"current_revision", "html", "latest_localizable_revision"}

\* C35: a deletion of revision r that returned removes the row of r and no
\* other row; every other revision is as it was, but for based_on, which is
\* None where it was r; the document of r is as it was but for
\* current_revision, html and latest_localizable_revision; every other
\* document, the contributors and the links are as they were.
C35_Step ==
    Deleted =>
      LET r == last'.rev
          d == last'.doc
      IN  /\ DOMAIN revs' = DOMAIN revs \ {r}
          /\ DOMAIN docs' = DOMAIN docs
          /\ \A v \in DOMAIN revs' :
                revs'[v] = IF revs[v].based_on = r
                           THEN [revs[v] EXCEPT !.based_on = None]
                           ELSE revs[v]
          /\ \A e \in DOMAIN docs \ {d} : docs'[e] = docs[e]
          /\ \A field \in DOMAIN docs[d] \ RepointedFields :
                docs'[d][field] = docs[d][field]
          /\ contributors' = contributors
          /\ links' = links

C35_DeleteRemovesOneRevision == [][C35_Step]_vars

\* The current revision of a document was deleted; an older approved
\* revision of the document is current now, and the revision of a
\* translation, made after the deleted one, remains and is based on none.
C35_Witness ==
    /\ last.op = "DeleteRevision"
    /\ last.err = ""
    /\ last.rev \notin DOMAIN revs
    /\ last.before = last.rev
    /\ docs[last.doc].current_revision \in DOMAIN revs
    /\ \E v \in DOMAIN revs :
          /\ v > last.rev
          /\ revs[v].document # last.doc
          /\ docs[revs[v].document].parent = last.doc
          /\ revs[v].based_on = None

====
